---------------------------- MODULE Spec2Model ----------------------------
(***************************************************************************)
(* Power/sleep coordination core of the esp32_watch firmware:              *)
(*   - the AXP2101 battery telemetry reader (components/axp2101_pmu),      *)
(*   - the sleep/wake coordinator (components/sleep_manager).              *)
(* Names follow the C sources.                                             *)
(***************************************************************************)
EXTENDS Integers, Sequences, FiniteSets, TLC

(***************************************************************************)
(* Program constants (pmu_axp2101.c)                                       *)
(***************************************************************************)
VBAT_MIN_MV == 3300
VBAT_NOMINAL_MV == 3700
VBAT_MAX_MV == 4200
VBAT_ABSOLUTE_MIN_MV == 2500
VBAT_ABSOLUTE_MAX_MV == 4500
\* a retry loop running one iteration too many (<= for <)
I2C_RETRY_COUNT_off_by_one == 3 + 1
I2C_RETRY_COUNT == 3
\* default percentage substituted by axp2101_get_battery_data_safe
PERCENT_DEFAULT == 50
\* largest value of the uint16_t the two voltage registers form
UINT16_MAX == 65535

(***************************************************************************)
(* Program constants (sleep_manager.c)                                     *)
(***************************************************************************)
MAX_TIMERS == 8
\* sleep_check_task: vTaskDelay(pdMS_TO_TICKS(500))
POLL_PERIOD_MS == 500
\* sleep_manager_lock_display_with_retry(200, 5, 50)
LOCK_TIMEOUT_MS == 200
LOCK_RETRIES == 5
LOCK_DELAY_MS == 50
\* a NULL timer handle
NULL == 0

(***************************************************************************)
(* Bounds of the model                                                     *)
(***************************************************************************)
\* largest rise of the battery register between two percent reads
MaxDrift == 2
\* the three inactivity timeouts of the build, in seconds
CONFIG_SLEEP_MANAGER_BACKLIGHT_TIMEOUT_SECONDS == 1
CONFIG_SLEEP_TIMEOUT_SECONDS == 2
CONFIG_SLEEP_MANAGER_DEEP_SLEEP_TIMEOUT_SECONDS == 3
\* the elapsed times are followed up to this many poll periods
MaxElapsedTicks == 7
\* largest number of periodic tasks registered with the GUI toolkit
MaxLvTimers == 10
\* periodic tasks registered in the builds that vary the feature flags
DefaultLvTimers == 2

\* raw register values the bus returns in the retry model: both sides of
\* every sanity bound, the scenario value 3850 and the garbage value 5000
RawSamples == {2499, 2500, 3850, 4500, 4501, 5000}
\* charge status register values: bit 6 clear / set / all ones
StatusSamples == {0, 64, 255}

VARIABLES
  pmu_dev,     \* pmu_axp2101.c: device handle set (TRUE) or NULL (FALSE)
  vbat_reg,    \* content of the VBAT_H/VBAT_L register pair
  pct,         \* last axp2101_get_battery_percent call: [ret, percent, mv]
  pct_prev,    \* the axp2101_get_battery_percent call before it
  safe         \* the running/finished axp2101_get_battery_data_safe call

VARIABLES
  sdkconfig,   \* the build's feature flags (sdkconfig.h), fixed at boot
  sm,          \* the file-static variables of sleep_manager.c
  disp,        \* LVGL timer list, display lock and backlight (BSP)
  hw,          \* VBUS, the bus and the two GPIO lines
  task,        \* position of sleep_check_task in its code
  was_pressed, \* button_monitor_task: the button was down at the last poll
  wake_log,    \* sleep_manager_wake calls returned since the last poll delay
  cycle,       \* progress of the undisturbed dim/sleep/wake cycle
  steps,       \* statements of the sleep/wake sequences run since the delay
  wifi_mgr,    \* the file-static wifi_mgr of wifi_manager.c
  restore,     \* callers of sleep_manager_get_last_sleep_type: their result
  button_pc    \* position of button_monitor_task in its backlight-on call

pmu_vars == <<pmu_dev, vbat_reg, pct, pct_prev, safe>>
sleep_vars == <<sdkconfig, sm, disp, hw, task, was_pressed, wake_log, cycle,
                steps, wifi_mgr, restore, button_pc>>
vars == <<pmu_dev, vbat_reg, pct, pct_prev, safe,
          sdkconfig, sm, disp, hw, task, was_pressed, wake_log, cycle,
          steps, wifi_mgr, restore, button_pc>>

(***************************************************************************)
(* The two-wire bus                                                        *)
(***************************************************************************)
\* a failed transaction
BusError == [ret |-> "ESP_FAIL", data |-> <<>>]
\* a successful two-byte read of the voltage registers holding v
BusVoltage(v) == [ret |-> "ESP_OK", data |-> <<v \div 256, v % 256>>]
\* a successful one-byte read of a status register
BusStatus(s) == [ret |-> "ESP_OK", data |-> <<s>>]

\* axp2101_get_battery_voltage: [ret, voltage_mv] for one bus transaction
axp2101_get_battery_voltage(dev, bus) ==
  IF ~dev THEN [ret |-> "ESP_ERR_INVALID_STATE", voltage_mv |-> 0]
  ELSE IF bus.ret # "ESP_OK" THEN [ret |-> bus.ret, voltage_mv |-> 0]
  ELSE [ret |-> "ESP_OK",
        voltage_mv |-> (bus.data[1] * 256 + bus.data[2]) % (UINT16_MAX + 1)]

\* the curve with the divisions rounding up instead of truncating
calculated_percent_round_up(voltage_mv) ==
  IF voltage_mv <= VBAT_MIN_MV THEN 0
  ELSE IF voltage_mv >= VBAT_MAX_MV THEN 100
  ELSE IF voltage_mv < VBAT_NOMINAL_MV
    THEN ((voltage_mv - VBAT_MIN_MV) * 50 + (VBAT_NOMINAL_MV - VBAT_MIN_MV) - 1)
           \div (VBAT_NOMINAL_MV - VBAT_MIN_MV)
  ELSE 50 + ((voltage_mv - VBAT_NOMINAL_MV) * 50
               + (VBAT_MAX_MV - VBAT_NOMINAL_MV) - 1)
              \div (VBAT_MAX_MV - VBAT_NOMINAL_MV)

\* the curve with the upper segment's offset of 50 forgotten
calculated_percent_no_offset(voltage_mv) ==
  IF voltage_mv <= VBAT_MIN_MV THEN 0
  ELSE IF voltage_mv >= VBAT_MAX_MV THEN 100
  ELSE IF voltage_mv < VBAT_NOMINAL_MV
    THEN ((voltage_mv - VBAT_MIN_MV) * 50) \div (VBAT_NOMINAL_MV - VBAT_MIN_MV)
  ELSE ((voltage_mv - VBAT_NOMINAL_MV) * 50)
         \div (VBAT_MAX_MV - VBAT_NOMINAL_MV)

\* the calibration curve of axp2101_get_battery_percent (int arithmetic,
\* then the clamp and the store into a uint8_t)
calculated_percent(voltage_mv) ==
  IF voltage_mv <= VBAT_MIN_MV THEN 0
  ELSE IF voltage_mv >= VBAT_MAX_MV THEN 100
  ELSE IF voltage_mv < VBAT_NOMINAL_MV
    THEN ((voltage_mv - VBAT_MIN_MV) * 50) \div (VBAT_NOMINAL_MV - VBAT_MIN_MV)
  ELSE 50 + ((voltage_mv - VBAT_NOMINAL_MV) * 50)
              \div (VBAT_MAX_MV - VBAT_NOMINAL_MV)

clamp_percent(p) == IF p < 0 THEN 0 ELSE IF p > 100 THEN 100 ELSE p

\* axp2101_get_battery_percent: [ret, percent, mv] for one bus transaction
\* (mv records the raw voltage the call read)
axp2101_get_battery_percent(dev, bus) ==
  LET v == axp2101_get_battery_voltage(dev, bus) IN
  IF v.ret # "ESP_OK" THEN [ret |-> v.ret, percent |-> 0, mv |-> 0]
  ELSE [ret |-> "ESP_OK",
        percent |-> clamp_percent(calculated_percent(v.voltage_mv)) % 256,
        mv |-> v.voltage_mv]

\* axp2101_is_charging: [ret, is_charging]; bit 6 of the status is 0 when
\* charging
axp2101_is_charging(dev, bus) ==
  IF ~dev THEN [ret |-> "ESP_ERR_INVALID_STATE", is_charging |-> FALSE]
  ELSE IF bus.ret # "ESP_OK" THEN [ret |-> bus.ret, is_charging |-> FALSE]
  ELSE [ret |-> "ESP_OK", is_charging |-> ((bus.data[1] \div 64) % 2 = 0)]


(***************************************************************************)
(* axp2101_get_battery_data_safe, one bus transaction per step             *)
(***************************************************************************)
Fields == {"voltage", "percent", "charging"}

\* no call made yet: nothing requested, no output cell written
SafeIdle ==
  [pc |-> "idle", req |-> {}, written |-> {}, voltage_mv |-> 0, percent |-> 0,
   is_charging |-> FALSE, success |-> FALSE, field_success |-> FALSE,
   retry |-> 0, v_reads |-> <<>>, p_reads |-> <<>>, c_reads |-> <<>>,
   ret |-> "none"]

\* the code after the block of field number idx (1 voltage, 2 percent,
\* 3 charging): the next block whose pointer is not NULL, or the return
safe_continue(s, idx) ==
  LET base == [s EXCEPT !.retry = 0, !.field_success = FALSE] IN
  IF idx < 1 /\ "voltage" \in s.req THEN [base EXCEPT !.pc = "voltage"]
  ELSE IF idx < 2 /\ "percent" \in s.req THEN [base EXCEPT !.pc = "percent"]
  ELSE IF idx < 3 /\ "charging" \in s.req THEN [base EXCEPT !.pc = "charging"]
  ELSE [base EXCEPT !.pc = "done",
                    !.ret = IF s.success THEN "ESP_OK" ELSE "ESP_FAIL"]

\* the sanity check without its upper bound
voltage_in_range_no_upper(temp_voltage) ==
  temp_voltage >= VBAT_ABSOLUTE_MIN_MV

\* the sanity check on a voltage reading
voltage_in_range(temp_voltage) ==
  temp_voltage >= VBAT_ABSOLUTE_MIN_MV /\ temp_voltage <= VBAT_ABSOLUTE_MAX_MV

\* entry of the call with the set req of non-NULL output pointers
safe_enter(dev, req) ==
  IF ~dev
    THEN [SafeIdle EXCEPT !.pc = "done", !.req = req,
                          !.ret = "ESP_ERR_INVALID_STATE"]
    ELSE safe_continue([SafeIdle EXCEPT !.req = req], 0)

\* one iteration of the voltage retry loop, and the default after the last
safe_voltage_step(s, dev, bus) ==
  LET r == axp2101_get_battery_voltage(dev, bus)
      t == [s EXCEPT !.v_reads = Append(@, r)]
  IN IF r.ret = "ESP_OK" /\ voltage_in_range(r.voltage_mv)
       THEN safe_continue([t EXCEPT !.voltage_mv = r.voltage_mv,
                                    !.written = @ \cup {"voltage"},
                                    !.success = TRUE], 1)
     ELSE IF s.retry + 1 < I2C_RETRY_COUNT
       THEN [t EXCEPT !.retry = @ + 1]
     ELSE IF ~t.success
       THEN safe_continue([t EXCEPT !.voltage_mv = VBAT_NOMINAL_MV,
                                    !.written = @ \cup {"voltage"}], 1)
     ELSE safe_continue(t, 1)

\* one iteration of the percent retry loop, and the default after the last
safe_percent_step(s, dev, bus) ==
  LET r == axp2101_get_battery_percent(dev, bus)
      t == [s EXCEPT !.p_reads = Append(@, r)]
  IN IF r.ret = "ESP_OK" /\ r.percent <= 100
       THEN safe_continue([t EXCEPT !.percent = r.percent,
                                    !.written = @ \cup {"percent"},
                                    !.field_success = TRUE,
                                    !.success = TRUE], 2)
     ELSE IF s.retry + 1 < I2C_RETRY_COUNT
       THEN [t EXCEPT !.retry = @ + 1]
     ELSE safe_continue([t EXCEPT !.percent = PERCENT_DEFAULT,
                                  !.written = @ \cup {"percent"}], 2)

\* the charging block without its "success = true"
safe_charging_step_no_success(s, dev, bus) ==
  LET r == axp2101_is_charging(dev, bus)
      t == [s EXCEPT !.c_reads = Append(@, r)]
  IN IF r.ret = "ESP_OK"
       THEN safe_continue([t EXCEPT !.is_charging = r.is_charging,
                                    !.written = @ \cup {"charging"},
                                    !.field_success = TRUE], 3)
     ELSE IF s.retry + 1 < I2C_RETRY_COUNT
       THEN [t EXCEPT !.retry = @ + 1]
     ELSE safe_continue([t EXCEPT !.is_charging = FALSE,
                                  !.written = @ \cup {"charging"}], 3)

\* one iteration of the charging retry loop, and the default after the last
safe_charging_step(s, dev, bus) ==
  LET r == axp2101_is_charging(dev, bus)
      t == [s EXCEPT !.c_reads = Append(@, r)]
  IN IF r.ret = "ESP_OK"
       THEN safe_continue([t EXCEPT !.is_charging = r.is_charging,
                                    !.written = @ \cup {"charging"},
                                    !.field_success = TRUE,
                                    !.success = TRUE], 3)
     ELSE IF s.retry + 1 < I2C_RETRY_COUNT
       THEN [t EXCEPT !.retry = @ + 1]
     ELSE safe_continue([t EXCEPT !.is_charging = FALSE,
                                  !.written = @ \cup {"charging"}], 3)

VoltageBusOutcomes == {BusError} \cup {BusVoltage(v) : v \in RawSamples}
StatusBusOutcomes == {BusError} \cup {BusStatus(b) : b \in StatusSamples}

\* axp2101_init: the device is added to the bus (or the add fails)
axp2101_init ==
  /\ ~pmu_dev
  /\ safe.pc = "idle"
  /\ \E added \in BOOLEAN : pmu_dev' = added
  /\ UNCHANGED <<vbat_reg, pct, pct_prev, safe>>
  /\ UNCHANGED sleep_vars

\* a caller invokes axp2101_get_battery_data_safe
SafeCall ==
  /\ safe.pc \in {"idle", "done"}
  /\ \E req \in SUBSET Fields : safe' = safe_enter(pmu_dev, req)
  /\ UNCHANGED <<pmu_dev, vbat_reg, pct, pct_prev>>
  /\ UNCHANGED sleep_vars

SafeVoltageAttempt ==
  /\ safe.pc = "voltage"
  /\ \E bus \in VoltageBusOutcomes : safe' = safe_voltage_step(safe, pmu_dev, bus)
  /\ UNCHANGED <<pmu_dev, vbat_reg, pct, pct_prev>>
  /\ UNCHANGED sleep_vars

SafePercentAttempt ==
  /\ safe.pc = "percent"
  /\ \E bus \in VoltageBusOutcomes : safe' = safe_percent_step(safe, pmu_dev, bus)
  /\ UNCHANGED <<pmu_dev, vbat_reg, pct, pct_prev>>
  /\ UNCHANGED sleep_vars

SafeChargingAttempt ==
  /\ safe.pc = "charging"
  /\ \E bus \in StatusBusOutcomes : safe' = safe_charging_step(safe, pmu_dev, bus)
  /\ UNCHANGED <<pmu_dev, vbat_reg, pct, pct_prev>>
  /\ UNCHANGED sleep_vars

(***************************************************************************)
(* The caller of the safe read: the telemetry poll of the watchface        *)
(***************************************************************************)
\* a data task that takes every reading as valid
watchface_data_task_always_valid(s) ==
  [voltage_mv |-> s.voltage_mv, battery_percent |-> s.percent,
   is_charging |-> s.is_charging, battery_valid |-> TRUE]

\* watchface_data_task: new_data after a call with the three pointers;
\* battery_valid is set only on ESP_OK
watchface_data_task(s) ==
  [voltage_mv |-> s.voltage_mv, battery_percent |-> s.percent,
   is_charging |-> s.is_charging, battery_valid |-> (s.ret = "ESP_OK")]

\* watchface_timer_cb: the text of battery_label for the cached data
battery_label(has_data, data) ==
  IF has_data /\ data.battery_valid
    THEN [text |-> IF data.is_charging THEN "charge %d%% %u.%02uV"
                                        ELSE "%d%% %u.%02uV",
          percent |-> data.battery_percent, voltage_mv |-> data.voltage_mv]
    ELSE [text |-> "? --%", percent |-> 0, voltage_mv |-> 0]

(***************************************************************************)
(* axp2101_get_battery_percent over the whole register range               *)
(***************************************************************************)
NoPct == [ret |-> "none", percent |-> 0, mv |-> 0]

\* the battery register has risen by d since the last call; the call reads
\* it, or the transaction fails
GetBatteryPercent ==
  /\ \E d \in 0..MaxDrift, ok \in BOOLEAN :
       /\ vbat_reg + d <= UINT16_MAX
       /\ vbat_reg' = vbat_reg + d
       /\ pct' = axp2101_get_battery_percent(
                   pmu_dev, IF ok THEN BusVoltage(vbat_reg') ELSE BusError)
  /\ pct_prev' = pct
  /\ UNCHANGED <<pmu_dev, safe>>
  /\ UNCHANGED sleep_vars

(***************************************************************************)
(* Sleep/wake coordinator (sleep_manager.c)                                *)
(*                                                                         *)
(* The clock enters the code only through now - last_activity_time and     *)
(* now - last_user_activity_time (elapsed_us in the two get-inactive-time  *)
(* functions); sm keeps these two differences, followed up to              *)
(* MaxElapsedUs, far below the uint32_t millisecond wrap.                  *)
(*                                                                         *)
(* sdkconfig carries the four options the build may or may not define:     *)
(* PREVENT_SLEEP_ON_USB, PREVENT_SCREEN_OFF_ON_USB, DEEP_SLEEP_ENABLE and  *)
(* WIFI_SUSPEND (with ENABLE_WIFI).  The model is of a build that defines  *)
(* BACKLIGHT_CONTROL, LVGL_TIMER_PAUSE, LVGL_RENDERING_CONTROL,            *)
(* TOUCH_RESET_TIMER, GPIO_WAKEUP and TOUCH_WAKEUP; the default display    *)
(* exists (bsp_display_start precedes sleep_manager_init).  The restart on *)
(* a long button press is not followed.                                    *)
(*                                                                         *)
(* steps logs the statements of sleep_manager_sleep, sleep_manager_wake    *)
(* and the deep-sleep path as the poll task runs them; like the locals of  *)
(* the task it is dropped at the poll delay.                               *)
(***************************************************************************)
BACKLIGHT_TIMEOUT_MS == CONFIG_SLEEP_MANAGER_BACKLIGHT_TIMEOUT_SECONDS * 1000
SLEEP_TIMEOUT_MS == CONFIG_SLEEP_TIMEOUT_SECONDS * 1000
DEEP_SLEEP_TIMEOUT_MS == CONFIG_SLEEP_MANAGER_DEEP_SLEEP_TIMEOUT_SECONDS * 1000
MaxElapsedUs == MaxElapsedTicks * POLL_PERIOD_MS * 1000

\* esp_timer_get_time() has advanced by us microseconds
time_passes(s, us) ==
  [s EXCEPT !.elapsed_us = IF @ + us > MaxElapsedUs THEN MaxElapsedUs ELSE @ + us,
            !.user_elapsed_us =
               IF @ + us > MaxElapsedUs THEN MaxElapsedUs ELSE @ + us]

\* axp2101_is_vbus_present: bit 5 of the status register
axp2101_is_vbus_present(dev, bus) ==
  IF ~dev THEN [ret |-> "ESP_ERR_INVALID_STATE", vbus_present |-> FALSE]
  ELSE IF bus.ret # "ESP_OK" THEN [ret |-> bus.ret, vbus_present |-> FALSE]
  ELSE [ret |-> "ESP_OK", vbus_present |-> ((bus.data[1] \div 32) % 2 = 1)]

\* the status register transaction the bus answers now
StatusRead(h) ==
  IF h.i2c_ok THEN BusStatus(IF h.vbus_present THEN 32 ELSE 0) ELSE BusError

\* sleep_manager_is_usb_connected, an inverted sense of the VBUS bit
sleep_manager_is_usb_connected_inverted(c, h) ==
  IF c.PREVENT_SLEEP_ON_USB
    THEN LET r == axp2101_is_vbus_present(TRUE, StatusRead(h))
         IN IF r.ret # "ESP_OK" THEN FALSE ELSE ~r.vbus_present
    ELSE FALSE

\* sleep_manager_is_usb_connected
sleep_manager_is_usb_connected(c, h) ==
  IF c.PREVENT_SLEEP_ON_USB
    THEN LET r == axp2101_is_vbus_present(TRUE, StatusRead(h))
         IN IF r.ret # "ESP_OK" THEN FALSE ELSE r.vbus_present
    ELSE FALSE

\* sleep_manager_get_inactive_time, in milliseconds
sleep_manager_get_inactive_time(s) == s.elapsed_us \div 1000

\* sleep_manager_get_user_inactive_time, in milliseconds
sleep_manager_get_user_inactive_time(s) == s.user_elapsed_us \div 1000

\* sleep_manager_should_sleep comparing against the backlight timeout
sleep_manager_should_sleep_at_dim(c, s, h) ==
  IF s.is_sleeping THEN FALSE
  ELSE IF c.PREVENT_SLEEP_ON_USB /\ sleep_manager_is_usb_connected(c, h)
    THEN FALSE
  ELSE sleep_manager_get_inactive_time(s) >= BACKLIGHT_TIMEOUT_MS

\* sleep_manager_should_sleep
sleep_manager_should_sleep(c, s, h) ==
  IF s.is_sleeping THEN FALSE
  ELSE IF c.PREVENT_SLEEP_ON_USB /\ sleep_manager_is_usb_connected(c, h)
    THEN FALSE
  ELSE sleep_manager_get_inactive_time(s) >= SLEEP_TIMEOUT_MS

\* sleep_manager_should_turn_off_backlight
sleep_manager_should_turn_off_backlight(c, s, h) ==
  IF s.is_backlight_off THEN FALSE
  ELSE IF c.PREVENT_SCREEN_OFF_ON_USB /\ sleep_manager_is_usb_connected(c, h)
    THEN FALSE
  ELSE sleep_manager_get_inactive_time(s) >= BACKLIGHT_TIMEOUT_MS

\* sleep_manager_reset_timer writing the user-activity timestamp only
sleep_manager_reset_timer_user_only(s) == [s EXCEPT !.user_elapsed_us = 0]

\* sleep_manager_reset_timer
sleep_manager_reset_timer(s) ==
  [s EXCEPT !.elapsed_us = 0, !.user_elapsed_us = 0]

\* the deep-sleep decision without its look at the button line
allow_deep_sleep_button_ignored(c, s, h) ==
  /\ c.DEEP_SLEEP_ENABLE
  /\ ~s.is_sleeping
  /\ sleep_manager_get_user_inactive_time(s) >= DEEP_SLEEP_TIMEOUT_MS
  /\ ~(c.PREVENT_SLEEP_ON_USB /\ sleep_manager_is_usb_connected(c, h))
  /\ h.touch_int_level # 0

\* the deep-sleep decision of sleep_check_task
allow_deep_sleep(c, s, h) ==
  /\ c.DEEP_SLEEP_ENABLE
  /\ ~s.is_sleeping
  /\ sleep_manager_get_user_inactive_time(s) >= DEEP_SLEEP_TIMEOUT_MS
  /\ ~(c.PREVENT_SLEEP_ON_USB /\ sleep_manager_is_usb_connected(c, h))
  /\ h.touch_int_level # 0
  /\ h.button_level # 0

\* lv_timer_get_next over the list of the d.timer_count registered timers
lv_timer_get_next(d, timer) ==
  IF timer = NULL THEN (IF d.timer_count > 0 THEN 1 ELSE NULL)
  ELSE IF timer < d.timer_count THEN timer + 1 ELSE NULL

\* saved_timers after memset
NoSavedTimers == [i \in 0..(MAX_TIMERS - 1) |-> NULL]

RECURSIVE pause_loop_off_by_one(_, _, _, _, _)
\* the pause loop running while saved_timer_count <= MAX_TIMERS
pause_loop_off_by_one(d, timer, count, saved, paused) ==
  IF timer # NULL /\ count <= MAX_TIMERS
    THEN pause_loop_off_by_one(d, lv_timer_get_next(d, timer), count + 1,
                               [saved EXCEPT ![count] = timer],
                               paused \cup {timer})
    ELSE [saved_timers |-> saved, saved_timer_count |-> count,
          paused |-> paused]

RECURSIVE pause_loop(_, _, _, _, _)
\* the while loop of pause_lvgl_timers
pause_loop(d, timer, count, saved, paused) ==
  IF timer # NULL /\ count < MAX_TIMERS
    THEN pause_loop(d, lv_timer_get_next(d, timer), count + 1,
                    [saved EXCEPT ![count] = timer], paused \cup {timer})
    ELSE [saved_timers |-> saved, saved_timer_count |-> count,
          paused |-> paused]

\* pause_lvgl_timers: [saved_timers, saved_timer_count, paused]
pause_lvgl_timers(d) ==
  pause_loop(d, lv_timer_get_next(d, NULL), 0, NoSavedTimers, d.paused)

\* the timers resume_lvgl_timers resumes and forces ready
saved_handles(s) ==
  {s.saved_timers[i] : i \in 0..(s.saved_timer_count - 1)} \ {NULL}

\* resume_lvgl_timers on the display side
resume_lvgl_timers_disp(s, d) ==
  [d EXCEPT !.paused = @ \ saved_handles(s),
            !.ready = @ \cup saved_handles(s)]

\* resume_lvgl_timers clearing the handles without saved_timer_count = 0
resume_lvgl_timers_sm_count_kept(s) ==
  [s EXCEPT !.saved_timers =
               [i \in 0..(MAX_TIMERS - 1) |->
                  IF i < s.saved_timer_count THEN NULL ELSE s.saved_timers[i]]]

\* resume_lvgl_timers on saved_timers and saved_timer_count
resume_lvgl_timers_sm(s) ==
  [s EXCEPT !.saved_timers =
               [i \in 0..(MAX_TIMERS - 1) |->
                  IF i < s.saved_timer_count THEN NULL ELSE s.saved_timers[i]],
            !.saved_timer_count = 0]

\* display_sleep leaves the backlight alone under USB or when already off
display_sleep_acts(c, s, h) ==
  /\ ~s.is_backlight_off
  /\ ~(c.PREVENT_SCREEN_OFF_ON_USB /\ sleep_manager_is_usb_connected(c, h))

\* display_sleep on the static variables
display_sleep_sm(c, s, h) ==
  IF display_sleep_acts(c, s, h) THEN [s EXCEPT !.is_backlight_off = TRUE] ELSE s

\* display_sleep on the backlight
display_sleep_disp(c, s, d, h) ==
  IF display_sleep_acts(c, s, h) THEN [d EXCEPT !.backlight = "off"] ELSE d

\* display_wake that leaves the backlight off
display_wake_disp_stays_off(s, d) == d

\* display_wake on the backlight
display_wake_disp(s, d) ==
  IF s.is_backlight_off THEN [d EXCEPT !.backlight = "on"] ELSE d

\* display_wake on the static variables
display_wake_sm(s) ==
  IF s.is_backlight_off THEN [s EXCEPT !.is_backlight_off = FALSE] ELSE s

\* sleep_manager_backlight_on on the static variables
sleep_manager_backlight_on_sm(s) ==
  IF ~s.is_backlight_off THEN s
  ELSE sleep_manager_reset_timer([s EXCEPT !.is_backlight_off = FALSE])

\* sleep_manager_backlight_on on the backlight
sleep_manager_backlight_on_disp(s, d) ==
  IF ~s.is_backlight_off THEN d ELSE [d EXCEPT !.backlight = "on"]

\* the CPU executes tasks: it is neither in light sleep nor powered down
cpu_running == task.pc \notin {"light_sleep", "deep_sleep"}

\* a configured wake source (button, touch interrupt) is at its low level
wake_source_fired(h) == h.button_level = 0 \/ h.touch_int_level = 0

\* what a step that leaves the undisturbed cycle does to the monitor
Disturbed == "other"

(***************************************************************************)
(* sleep_check_task, one step per statement that other tasks can observe  *)
(***************************************************************************)
\* the state sleep_manager_init leaves; last_sleep_type lives in RTC memory
BootSm(last_sleep_type) ==
  [elapsed_us |-> 0, user_elapsed_us |-> 0, is_sleeping |-> FALSE,
   is_backlight_off |-> FALSE, last_sleep_type |-> last_sleep_type,
   saved_timers |-> NoSavedTimers, saved_timer_count |-> 0]

\* the display after bsp_display_start with n periodic tasks registered
BootDisp(n) ==
  [timer_count |-> n, paused |-> {}, ready |-> {}, invalidation |-> TRUE,
   lock |-> "none", backlight |-> "on"]

\* the getter that returns the record without resetting it
sleep_manager_get_last_sleep_type_no_reset(s, out_null, out_type) ==
  IF out_null \/ s.last_sleep_type = "NONE"
    THEN [found |-> FALSE, out_type |-> out_type, sm |-> s]
    ELSE [found |-> TRUE, out_type |-> s.last_sleep_type, sm |-> s]

\* sleep_manager_get_last_sleep_type(out): out_null says that out is NULL,
\* out_type is what *out holds before the call; the result is the return
\* value, what *out holds after the call, and the file-static variables
sleep_manager_get_last_sleep_type(s, out_null, out_type) ==
  IF out_null
    THEN [found |-> FALSE, out_type |-> out_type, sm |-> s]
    ELSE IF s.last_sleep_type = "NONE"
      THEN [found |-> FALSE, out_type |-> out_type, sm |-> s]
      ELSE [found |-> TRUE, out_type |-> s.last_sleep_type,
            sm |-> [s EXCEPT !.last_sleep_type = "NONE"]]

\* what the last caller of the getter saw: its return value and *out
CallerResult(r, out_null) ==
  [found |-> r.found, out_type |-> r.out_type, out_null |-> out_null]

\* app_main: last_sleep_type = NONE; sleep_manager_get_last_sleep_type(&..)
app_main_restore(s) ==
  CallerResult(sleep_manager_get_last_sleep_type(s, FALSE, "NONE"), FALSE)

\* wifi_mgr after app_main: wifi_manager_init and the status callback
BootWifi(c) ==
  [initialized |-> c.WIFI_SUSPEND, callback |-> c.WIFI_SUSPEND]

\* wifi_manager_deinit
wifi_manager_deinit(w) ==
  IF ~w.initialized THEN w
  ELSE [w EXCEPT !.initialized = FALSE, !.callback = FALSE]

\* wifi_manager_init; ok is false when a resource could not be created
wifi_manager_init(w, ok) ==
  IF w.initialized THEN w
  ELSE IF ok THEN [w EXCEPT !.initialized = TRUE]
  ELSE w

\* sleep_check_task enters its loop
BootTask ==
  [pc |-> "delay", attempt |-> 0, sleep_ret |-> "none", wake_ret |-> "none",
   pending_ret |-> "none", caller |-> "none", was_sleeping |-> FALSE]

\* sleep_manager_wake returns ret to its caller; sleep_manager_sleep then
\* returns the light-sleep primitive's status
wake_return(t, ret) ==
  [t EXCEPT !.pc = "delay", !.wake_ret = ret, !.attempt = 0,
            !.sleep_ret = IF t.caller = "sleep" THEN t.pending_ret ELSE @]

\* sleep_manager_sleep returns ret to sleep_check_task
sleep_return(t, ret) ==
  [t EXCEPT !.pc = "delay", !.sleep_ret = ret, !.attempt = 0]

\* the retry loop going round once more than it does
lock_loop_continues_once_more(attempt) == attempt + 1 <= LOCK_RETRIES + 1

\* for (attempt = 0; attempt <= retries; attempt++): after attempt number
\* attempt (from 0) failed, the loop makes another one
lock_loop_continues(attempt) == attempt + 1 <= LOCK_RETRIES

\* one bsp_display_lock failure of the retry loop: timeout, then the delay
lock_wait_us == (LOCK_TIMEOUT_MS + LOCK_DELAY_MS) * 1000

\* vTaskDelay(pdMS_TO_TICKS(500)); the status of the last call is dropped,
\* and so are the log of its statements and the result local to the last
\* caller of the getter (back to what a cold boot leaves)
PollDelay ==
  /\ task.pc = "delay"
  /\ task' = [BootTask EXCEPT !.pc = "should_turn_off_backlight"]
  /\ sm' = time_passes(sm, POLL_PERIOD_MS * 1000)
  /\ wake_log' = <<>>
  /\ cycle' = IF cycle = "woken" THEN Disturbed ELSE cycle
  /\ steps' = <<>>
  /\ restore' = app_main_restore(BootSm("NONE"))
  /\ UNCHANGED <<sdkconfig, disp, hw, was_pressed, wifi_mgr>>
  /\ UNCHANGED button_pc
  /\ UNCHANGED pmu_vars

\* if (sleep_manager_should_turn_off_backlight())
ShouldTurnOffBacklight ==
  /\ task.pc = "should_turn_off_backlight"
  /\ task' = [task EXCEPT !.pc =
                IF sleep_manager_should_turn_off_backlight(sdkconfig, sm, hw)
                  THEN "backlight_off" ELSE "deep_check"]
  /\ cycle' = IF sdkconfig.PREVENT_SCREEN_OFF_ON_USB
                   /\ sleep_manager_is_usb_connected(sdkconfig, hw)
                THEN Disturbed ELSE cycle
  /\ UNCHANGED <<sdkconfig, sm, disp, hw, was_pressed, wake_log>>
  /\ UNCHANGED <<steps, wifi_mgr, restore>>
  /\ UNCHANGED button_pc
  /\ UNCHANGED pmu_vars

\* sleep_manager_backlight_off up to bsp_display_backlight_off()
BacklightOff ==
  /\ task.pc = "backlight_off"
  /\ IF sm.is_backlight_off
       THEN /\ task' = [task EXCEPT !.pc = "deep_check"]
            /\ UNCHANGED <<disp, cycle>>
       ELSE IF sdkconfig.PREVENT_SCREEN_OFF_ON_USB
                 /\ sleep_manager_is_usb_connected(sdkconfig, hw)
         THEN /\ task' = [task EXCEPT !.pc = "deep_check"]
              /\ cycle' = Disturbed
              /\ UNCHANGED disp
         ELSE /\ task' = [task EXCEPT !.pc = "backlight_off_flag"]
              /\ disp' = [disp EXCEPT !.backlight = "off"]
              /\ UNCHANGED cycle
  /\ UNCHANGED <<sdkconfig, sm, hw, was_pressed, wake_log>>
  /\ UNCHANGED <<steps, wifi_mgr, restore>>
  /\ UNCHANGED button_pc
  /\ UNCHANGED pmu_vars

\* is_backlight_off = true
BacklightOffFlag ==
  /\ task.pc = "backlight_off_flag"
  /\ task' = [task EXCEPT !.pc = "deep_check"]
  /\ sm' = [sm EXCEPT !.is_backlight_off = TRUE]
  /\ cycle' = IF cycle = "awake" THEN "dimmed" ELSE Disturbed
  /\ UNCHANGED <<sdkconfig, disp, hw, was_pressed, wake_log>>
  /\ UNCHANGED <<steps, wifi_mgr, restore>>
  /\ UNCHANGED button_pc
  /\ UNCHANGED pmu_vars

\* the deep-sleep check of the loop
DeepCheck ==
  /\ task.pc = "deep_check"
  /\ task' = [task EXCEPT !.pc = IF allow_deep_sleep(sdkconfig, sm, hw)
                                   THEN "deep_mark" ELSE "should_sleep"]
  /\ cycle' = IF /\ sdkconfig.DEEP_SLEEP_ENABLE
                 /\ ~sm.is_sleeping
                 /\ sleep_manager_get_user_inactive_time(sm)
                      >= DEEP_SLEEP_TIMEOUT_MS
                THEN Disturbed ELSE cycle
  /\ UNCHANGED <<sdkconfig, sm, disp, hw, was_pressed, wake_log>>
  /\ UNCHANGED <<steps, wifi_mgr, restore>>
  /\ UNCHANGED button_pc
  /\ UNCHANGED pmu_vars

\* the deep-sleep path pausing the LVGL timers before it marks the state
DeepMark_pausing_timers ==
  /\ task.pc = "deep_mark"
  /\ task' = [task EXCEPT !.pc = "deep_display"]
  /\ LET r == pause_lvgl_timers(disp) IN
       /\ sm' = [sm EXCEPT !.is_sleeping = TRUE,
                           !.saved_timers = r.saved_timers,
                           !.saved_timer_count = r.saved_timer_count]
       /\ disp' = [disp EXCEPT !.paused = r.paused]
  /\ UNCHANGED <<sdkconfig, hw, was_pressed, wake_log, cycle>>
  /\ steps' = steps \o <<"pause_timers", "mark_sleeping">>
  /\ UNCHANGED <<wifi_mgr, restore>>
  /\ UNCHANGED button_pc
  /\ UNCHANGED pmu_vars

\* is_sleeping = true, before deep sleep
DeepMark ==
  /\ task.pc = "deep_mark"
  /\ task' = [task EXCEPT !.pc = "deep_display"]
  /\ sm' = [sm EXCEPT !.is_sleeping = TRUE]
  /\ UNCHANGED <<sdkconfig, disp, hw, was_pressed, wake_log, cycle>>
  /\ steps' = Append(steps, "mark_sleeping")
  /\ UNCHANGED <<wifi_mgr, restore>>
  /\ UNCHANGED button_pc
  /\ UNCHANGED pmu_vars

\* display_sleep(), before deep sleep
DeepDisplay ==
  /\ task.pc = "deep_display"
  /\ task' = [task EXCEPT !.pc = "deep_enter"]
  /\ sm' = display_sleep_sm(sdkconfig, sm, hw)
  /\ disp' = display_sleep_disp(sdkconfig, sm, disp, hw)
  /\ UNCHANGED <<sdkconfig, hw, was_pressed, wake_log, cycle>>
  /\ steps' = Append(steps, "display_sleep")
  /\ UNCHANGED <<wifi_mgr, restore>>
  /\ UNCHANGED button_pc
  /\ UNCHANGED pmu_vars

\* sleep_manager_enter_deep_sleep: the chip powers down
DeepEnter ==
  /\ task.pc = "deep_enter"
  /\ task' = [task EXCEPT !.pc = "deep_sleep"]
  /\ sm' = [sm EXCEPT !.last_sleep_type = "DEEP"]
  /\ UNCHANGED <<sdkconfig, disp, hw, was_pressed, wake_log, cycle>>
  /\ steps' = steps \o <<"last_type_deep", "deep_sleep_start">>
  /\ UNCHANGED <<wifi_mgr, restore>>
  /\ UNCHANGED button_pc
  /\ UNCHANGED pmu_vars

\* a wake source ends deep sleep: the firmware boots again, RTC memory kept,
\* and app_main reads the last sleep type
DeepSleepWake ==
  /\ task.pc = "deep_sleep"
  /\ wake_source_fired(hw)
  /\ task' = BootTask
  /\ sm' = sleep_manager_get_last_sleep_type(BootSm(sm.last_sleep_type),
                                             FALSE, "NONE").sm
  /\ restore' = app_main_restore(BootSm(sm.last_sleep_type))
  /\ disp' = BootDisp(disp.timer_count)
  /\ was_pressed' = FALSE
  /\ wake_log' = <<>>
  /\ cycle' = Disturbed
  /\ steps' = <<>>
  /\ wifi_mgr' = BootWifi(sdkconfig)
  /\ UNCHANGED <<sdkconfig, hw>>
  /\ button_pc' = "idle"
  /\ UNCHANGED pmu_vars

\* if (sleep_manager_should_sleep())
ShouldSleep ==
  /\ task.pc = "should_sleep"
  /\ task' = [task EXCEPT !.pc =
                IF sleep_manager_should_sleep(sdkconfig, sm, hw)
                  THEN "sleep" ELSE "delay"]
  /\ cycle' = IF sdkconfig.PREVENT_SLEEP_ON_USB
                   /\ sleep_manager_is_usb_connected(sdkconfig, hw)
                THEN Disturbed ELSE cycle
  /\ UNCHANGED <<sdkconfig, sm, disp, hw, was_pressed, wake_log>>
  /\ UNCHANGED <<steps, wifi_mgr, restore>>
  /\ UNCHANGED button_pc
  /\ UNCHANGED pmu_vars

\* sleep_manager_sleep: the inhibitor checks at entry (and the uptime save)
SleepEnter ==
  /\ task.pc = "sleep"
  /\ IF sm.is_sleeping
       THEN /\ task' = sleep_return(task, "ESP_OK")
            /\ UNCHANGED <<sm, cycle>>
       ELSE IF sdkconfig.PREVENT_SLEEP_ON_USB
                 /\ sleep_manager_is_usb_connected(sdkconfig, hw)
         THEN /\ task' = sleep_return(task, "ESP_OK")
              /\ cycle' = Disturbed
              /\ UNCHANGED sm
       ELSE IF hw.touch_int_level = 0 \/ hw.button_level = 0
         THEN /\ task' = sleep_return(task, "ESP_OK")
              /\ sm' = sleep_manager_reset_timer(sm)
              /\ cycle' = Disturbed
         ELSE /\ task' = [task EXCEPT !.pc = "sleep_lock", !.attempt = 0,
                                      !.caller = "sleep"]
              /\ UNCHANGED <<sm, cycle>>
  /\ UNCHANGED <<sdkconfig, disp, hw, was_pressed, wake_log>>
  /\ UNCHANGED <<steps, wifi_mgr, restore>>
  /\ UNCHANGED button_pc
  /\ UNCHANGED pmu_vars

\* the aborted sleep entry leaving the state marked sleeping
sleep_aborted_marked_sleeping(s) == [s EXCEPT !.is_sleeping = TRUE]

\* "sleep aborted": is_sleeping = false; return ESP_ERR_TIMEOUT
sleep_aborted(s) == [s EXCEPT !.is_sleeping = FALSE]

\* one attempt of sleep_manager_lock_display_with_retry(200, 5, 50)
SleepLock ==
  /\ task.pc = "sleep_lock"
  /\ IF disp.lock = "none"
       THEN /\ disp' = [disp EXCEPT !.lock = "sleep"]
            /\ task' = [task EXCEPT !.pc = "sleep_pause", !.attempt = 0]
            /\ UNCHANGED <<sm, cycle>>
       ELSE IF lock_loop_continues(task.attempt)
         THEN /\ task' = [task EXCEPT !.attempt = @ + 1]
              /\ sm' = time_passes(sm, lock_wait_us)
              /\ UNCHANGED <<disp, cycle>>
         ELSE /\ task' = sleep_return(task, "ESP_ERR_TIMEOUT")
              /\ sm' = sleep_aborted(time_passes(sm, lock_wait_us))
              /\ cycle' = Disturbed
              /\ UNCHANGED disp
  /\ UNCHANGED <<sdkconfig, hw, was_pressed, wake_log>>
  /\ steps' = IF disp.lock = "none" THEN Append(steps, "lock") ELSE steps
  /\ UNCHANGED <<wifi_mgr, restore>>
  /\ UNCHANGED button_pc
  /\ UNCHANGED pmu_vars

\* pause_lvgl_timers(); lv_display_enable_invalidation(disp, false)
SleepPause ==
  /\ task.pc = "sleep_pause"
  /\ LET r == pause_lvgl_timers(disp) IN
       /\ sm' = [sm EXCEPT !.saved_timers = r.saved_timers,
                           !.saved_timer_count = r.saved_timer_count]
       /\ disp' = [disp EXCEPT !.paused = r.paused, !.invalidation = FALSE]
  /\ task' = [task EXCEPT !.pc = "sleep_unlock"]
  /\ UNCHANGED <<sdkconfig, hw, was_pressed, wake_log, cycle>>
  /\ steps' = steps \o <<"pause_timers", "invalidation_off">>
  /\ UNCHANGED <<wifi_mgr, restore>>
  /\ UNCHANGED button_pc
  /\ UNCHANGED pmu_vars

\* the sleep sequence going on without releasing the display lock
SleepUnlock_lock_kept ==
  /\ task.pc = "sleep_unlock"
  /\ task' = [task EXCEPT !.pc = "sleep_mark"]
  /\ UNCHANGED <<sdkconfig, sm, disp, hw, was_pressed, wake_log, cycle>>
  /\ steps' = Append(steps, "unlock")
  /\ UNCHANGED <<wifi_mgr, restore>>
  /\ UNCHANGED button_pc
  /\ UNCHANGED pmu_vars

\* bsp_display_unlock()
SleepUnlock ==
  /\ task.pc = "sleep_unlock"
  /\ disp' = [disp EXCEPT !.lock = "none"]
  /\ task' = [task EXCEPT !.pc = "sleep_mark"]
  /\ UNCHANGED <<sdkconfig, sm, hw, was_pressed, wake_log, cycle>>
  /\ steps' = Append(steps, "unlock")
  /\ UNCHANGED <<wifi_mgr, restore>>
  /\ UNCHANGED button_pc
  /\ UNCHANGED pmu_vars

\* is_sleeping = true
SleepMark ==
  /\ task.pc = "sleep_mark"
  /\ sm' = [sm EXCEPT !.is_sleeping = TRUE]
  /\ task' = [task EXCEPT !.pc = "sleep_display"]
  /\ UNCHANGED <<sdkconfig, disp, hw, was_pressed, wake_log, cycle>>
  /\ steps' = Append(steps, "mark_sleeping")
  /\ UNCHANGED <<wifi_mgr, restore>>
  /\ UNCHANGED button_pc
  /\ UNCHANGED pmu_vars

\* display_sleep()
SleepDisplay ==
  /\ task.pc = "sleep_display"
  /\ sm' = display_sleep_sm(sdkconfig, sm, hw)
  /\ disp' = display_sleep_disp(sdkconfig, sm, disp, hw)
  /\ task' = [task EXCEPT !.pc = IF sdkconfig.WIFI_SUSPEND
                                   THEN "sleep_wifi" ELSE "sleep_type"]
  /\ UNCHANGED <<sdkconfig, hw, was_pressed, wake_log, cycle>>
  /\ steps' = Append(steps, "display_sleep")
  /\ UNCHANGED <<wifi_mgr, restore>>
  /\ UNCHANGED button_pc
  /\ UNCHANGED pmu_vars

\* sleep_manager_suspend_wifi(), in the builds that have it
SleepWifi ==
  /\ task.pc = "sleep_wifi"
  /\ wifi_mgr' = wifi_manager_deinit(wifi_mgr)
  /\ task' = [task EXCEPT !.pc = "sleep_type"]
  /\ steps' = Append(steps, "suspend_wifi")
  /\ UNCHANGED <<sdkconfig, sm, disp, hw, was_pressed, wake_log, cycle>>
  /\ UNCHANGED restore
  /\ UNCHANGED button_pc
  /\ UNCHANGED pmu_vars

\* last_sleep_type = SLEEP_MANAGER_SLEEP_TYPE_LIGHT
SleepType ==
  /\ task.pc = "sleep_type"
  /\ sm' = [sm EXCEPT !.last_sleep_type = "LIGHT"]
  /\ task' = [task EXCEPT !.pc = "light_sleep_start"]
  /\ UNCHANGED <<sdkconfig, disp, hw, was_pressed, wake_log, cycle>>
  /\ steps' = Append(steps, "last_type_light")
  /\ UNCHANGED <<wifi_mgr, restore>>
  /\ UNCHANGED button_pc
  /\ UNCHANGED pmu_vars

\* esp_light_sleep_start(): the CPU halts, or the call fails at once
LightSleepStart ==
  /\ task.pc = "light_sleep_start"
  /\ \E entered \in BOOLEAN :
       IF entered
         THEN /\ task' = [task EXCEPT !.pc = "light_sleep",
                                      !.pending_ret = "ESP_OK"]
              /\ cycle' = IF cycle = "dimmed" THEN "sleeping" ELSE Disturbed
         ELSE /\ task' = [task EXCEPT !.pc = "wake",
                                      !.pending_ret = "ESP_FAIL"]
              /\ cycle' = Disturbed
  /\ UNCHANGED <<sdkconfig, sm, disp, hw, was_pressed, wake_log>>
  /\ steps' = Append(steps, "light_sleep_start")
  /\ UNCHANGED <<wifi_mgr, restore>>
  /\ UNCHANGED button_pc
  /\ UNCHANGED pmu_vars

\* a wake source ends light sleep after some time; sleep_manager_sleep logs
\* the cause and calls sleep_manager_wake()
LightSleepWake ==
  /\ task.pc = "light_sleep"
  /\ wake_source_fired(hw)
  /\ \E ticks \in 0..MaxElapsedTicks :
       sm' = time_passes(sm, ticks * POLL_PERIOD_MS * 1000)
  /\ task' = [task EXCEPT !.pc = "wake"]
  /\ UNCHANGED <<sdkconfig, disp, hw, was_pressed, wake_log, cycle>>
  /\ UNCHANGED <<steps, wifi_mgr, restore>>
  /\ UNCHANGED button_pc
  /\ UNCHANGED pmu_vars

\* sleep_manager_wake: the is_sleeping test and display_wake()
WakeEnter ==
  /\ task.pc = "wake"
  /\ IF ~sm.is_sleeping
       THEN /\ task' = wake_return([task EXCEPT !.was_sleeping = FALSE],
                                   "ESP_OK")
            /\ wake_log' = Append(wake_log,
                                  [ret |-> "ESP_OK", was_sleeping |-> FALSE])
            /\ UNCHANGED <<sm, disp>>
       ELSE /\ task' = [task EXCEPT !.pc = "wake_lock", !.attempt = 0,
                                    !.was_sleeping = TRUE]
            /\ sm' = display_wake_sm(sm)
            /\ disp' = display_wake_disp(sm, disp)
            /\ UNCHANGED wake_log
  /\ UNCHANGED <<sdkconfig, hw, was_pressed, cycle>>
  /\ steps' = IF sm.is_sleeping THEN Append(steps, "display_wake") ELSE steps
  /\ UNCHANGED <<wifi_mgr, restore>>
  /\ UNCHANGED button_pc
  /\ UNCHANGED pmu_vars

\* one attempt of sleep_manager_lock_display_with_retry(200, 5, 50)
WakeLock ==
  /\ task.pc = "wake_lock"
  /\ IF disp.lock = "none"
       THEN /\ disp' = [disp EXCEPT !.lock = "sleep"]
            /\ task' = [task EXCEPT !.pc = "wake_resume", !.attempt = 0]
            /\ UNCHANGED <<sm, wake_log, cycle>>
       ELSE IF lock_loop_continues(task.attempt)
         THEN /\ task' = [task EXCEPT !.attempt = @ + 1]
              /\ sm' = time_passes(sm, lock_wait_us)
              /\ UNCHANGED <<disp, wake_log, cycle>>
         ELSE /\ task' = wake_return(task, "ESP_ERR_TIMEOUT")
              /\ wake_log' = Append(wake_log, [ret |-> "ESP_ERR_TIMEOUT",
                                               was_sleeping |-> TRUE])
              /\ sm' = time_passes(sm, lock_wait_us)
              /\ cycle' = Disturbed
              /\ UNCHANGED disp
  /\ UNCHANGED <<sdkconfig, hw, was_pressed>>
  /\ steps' = IF disp.lock = "none" THEN Append(steps, "lock") ELSE steps
  /\ UNCHANGED <<wifi_mgr, restore>>
  /\ UNCHANGED button_pc
  /\ UNCHANGED pmu_vars

\* the wake sequence resuming the timers before it re-enables redraw
WakeResume_timers_first ==
  /\ task.pc = "wake_resume"
  /\ disp' = [resume_lvgl_timers_disp(sm, disp) EXCEPT !.invalidation = TRUE]
  /\ sm' = resume_lvgl_timers_sm(sm)
  /\ task' = [task EXCEPT !.pc = "wake_unlock"]
  /\ UNCHANGED <<sdkconfig, hw, was_pressed, wake_log, cycle>>
  /\ steps' = steps \o <<"resume_timers", "invalidation_on">>
  /\ UNCHANGED <<wifi_mgr, restore>>
  /\ UNCHANGED button_pc
  /\ UNCHANGED pmu_vars

\* lv_display_enable_invalidation(disp, true); resume_lvgl_timers()
WakeResume ==
  /\ task.pc = "wake_resume"
  /\ disp' = [resume_lvgl_timers_disp(sm, disp) EXCEPT !.invalidation = TRUE]
  /\ sm' = resume_lvgl_timers_sm(sm)
  /\ task' = [task EXCEPT !.pc = "wake_unlock"]
  /\ UNCHANGED <<sdkconfig, hw, was_pressed, wake_log, cycle>>
  /\ steps' = steps \o <<"invalidation_on", "resume_timers">>
  /\ UNCHANGED <<wifi_mgr, restore>>
  /\ UNCHANGED button_pc
  /\ UNCHANGED pmu_vars

\* the wake sequence going on without releasing the display lock
WakeUnlock_lock_kept ==
  /\ task.pc = "wake_unlock"
  /\ task' = [task EXCEPT !.pc = "wake_reset"]
  /\ UNCHANGED <<sdkconfig, sm, disp, hw, was_pressed, wake_log, cycle>>
  /\ steps' = Append(steps, "unlock")
  /\ UNCHANGED <<wifi_mgr, restore>>
  /\ UNCHANGED button_pc
  /\ UNCHANGED pmu_vars

\* bsp_display_unlock()
WakeUnlock ==
  /\ task.pc = "wake_unlock"
  /\ disp' = [disp EXCEPT !.lock = "none"]
  /\ task' = [task EXCEPT !.pc = "wake_reset"]
  /\ UNCHANGED <<sdkconfig, sm, hw, was_pressed, wake_log, cycle>>
  /\ steps' = Append(steps, "unlock")
  /\ UNCHANGED <<wifi_mgr, restore>>
  /\ UNCHANGED button_pc
  /\ UNCHANGED pmu_vars

\* the wake sequence resetting the user-activity timestamp as well
wake_reset_both(s) == [s EXCEPT !.elapsed_us = 0, !.user_elapsed_us = 0]

\* the wake sequence without its timer reset
wake_reset_missing(s) == s

\* last_activity_time = esp_timer_get_time()
wake_reset(s) == [s EXCEPT !.elapsed_us = 0]

\* the wake sequence resets the light-sleep activity timer
WakeReset ==
  /\ task.pc = "wake_reset"
  /\ sm' = wake_reset(sm)
  /\ task' = [task EXCEPT !.pc = "wake_mark"]
  /\ UNCHANGED <<sdkconfig, disp, hw, was_pressed, wake_log, cycle>>
  /\ steps' = Append(steps, "reset_timer")
  /\ UNCHANGED <<wifi_mgr, restore>>
  /\ UNCHANGED button_pc
  /\ UNCHANGED pmu_vars

\* is_sleeping = false; return ESP_OK, in the builds without WiFi suspend
WakeMark ==
  /\ task.pc = "wake_mark"
  /\ sm' = [sm EXCEPT !.is_sleeping = FALSE]
  /\ IF sdkconfig.WIFI_SUSPEND
       THEN /\ task' = [task EXCEPT !.pc = "wake_wifi"]
            /\ UNCHANGED <<wake_log, cycle>>
       ELSE /\ task' = wake_return(task, "ESP_OK")
            /\ wake_log' = Append(wake_log,
                                  [ret |-> "ESP_OK", was_sleeping |-> TRUE])
            /\ cycle' = IF cycle = "sleeping" THEN "woken" ELSE Disturbed
  /\ UNCHANGED <<sdkconfig, disp, hw, was_pressed>>
  /\ steps' = Append(steps, "mark_awake")
  /\ UNCHANGED <<wifi_mgr, restore>>
  /\ UNCHANGED button_pc
  /\ UNCHANGED pmu_vars

\* sleep_manager_resume_wifi(), its failure only logged; return ESP_OK
WakeWifi ==
  /\ task.pc = "wake_wifi"
  /\ \E ok \in BOOLEAN : wifi_mgr' = wifi_manager_init(wifi_mgr, ok)
  /\ task' = wake_return(task, "ESP_OK")
  /\ wake_log' = Append(wake_log, [ret |-> "ESP_OK", was_sleeping |-> TRUE])
  /\ cycle' = IF cycle = "sleeping" THEN "woken" ELSE Disturbed
  /\ steps' = Append(steps, "resume_wifi")
  /\ UNCHANGED <<sdkconfig, sm, disp, hw, was_pressed, restore>>
  /\ UNCHANGED button_pc
  /\ UNCHANGED pmu_vars

\* a caller outside the poll loop invokes sleep_manager_wake(), at most
\* twice in a row
ApiWake ==
  /\ task.pc = "delay"
  /\ Len(wake_log) < 2
  /\ task' = [task EXCEPT !.pc = "wake", !.caller = "api"]
  /\ UNCHANGED <<sdkconfig, sm, disp, hw, was_pressed, wake_log, cycle>>
  /\ UNCHANGED <<steps, wifi_mgr, restore>>
  /\ UNCHANGED button_pc
  /\ UNCHANGED pmu_vars

\* a task other than the poll loop calls the getter while the poll loop
\* waits in its delay, with a NULL output or with the variable it passed
\* before
ApiGetLastSleepType ==
  /\ task.pc = "delay"
  /\ \E out_null \in BOOLEAN :
       LET r == sleep_manager_get_last_sleep_type(sm, out_null,
                                                  restore.out_type) IN
         /\ sm' = r.sm
         /\ restore' = CallerResult(r, out_null)
  /\ UNCHANGED <<sdkconfig, disp, hw, task, was_pressed, wake_log, cycle>>
  /\ UNCHANGED <<steps, wifi_mgr>>
  /\ UNCHANGED button_pc
  /\ UNCHANGED pmu_vars

(***************************************************************************)
(* The other tasks: the GUI task that owns the display lock while it runs  *)
(* the toolkit, and button_monitor_task.  They run only while the CPU does.*)
(***************************************************************************)
\* the touch handler without its is_sleeping test
global_touch_event_handler_sm_while_sleeping(s) ==
  sleep_manager_backlight_on_sm(sleep_manager_reset_timer(s))

\* global_touch_event_handler on LV_EVENT_PRESSED / LV_EVENT_PRESSING
global_touch_event_handler_sm(s) ==
  IF s.is_sleeping THEN s
  ELSE sleep_manager_backlight_on_sm(sleep_manager_reset_timer(s))

\* global_touch_event_handler on the backlight
global_touch_event_handler_disp(s, d) ==
  IF s.is_sleeping THEN d
  ELSE sleep_manager_backlight_on_disp(sleep_manager_reset_timer(s), d)

\* the GUI task takes the display lock (bsp_display_lock)
GuiLock ==
  /\ cpu_running
  /\ disp.lock = "none"
  /\ disp' = [disp EXCEPT !.lock = "gui"]
  /\ UNCHANGED <<sdkconfig, sm, hw, task, was_pressed, wake_log, cycle>>
  /\ UNCHANGED <<steps, wifi_mgr, restore>>
  /\ UNCHANGED button_pc
  /\ UNCHANGED pmu_vars

\* the input device reports a press while the panel is touched
GuiTouchEvent ==
  /\ cpu_running
  /\ disp.lock = "gui"
  /\ hw.touch_int_level = 0
  /\ sm' = global_touch_event_handler_sm(sm)
  /\ disp' = global_touch_event_handler_disp(sm, disp)
  /\ cycle' = IF sm.is_sleeping \/ cycle \in {"sleeping", "woken"}
                THEN cycle ELSE Disturbed
  /\ UNCHANGED <<sdkconfig, hw, task, was_pressed, wake_log>>
  /\ UNCHANGED <<steps, wifi_mgr, restore>>
  /\ UNCHANGED button_pc
  /\ UNCHANGED pmu_vars

\* lv_timer_handler runs the timers that are ready and not paused
GuiTimerHandler ==
  /\ cpu_running
  /\ disp.lock = "gui"
  /\ disp.ready # {}
  /\ disp' = [disp EXCEPT !.ready = @ \cap disp.paused]
  /\ UNCHANGED <<sdkconfig, sm, hw, task, was_pressed, wake_log, cycle>>
  /\ UNCHANGED <<steps, wifi_mgr, restore>>
  /\ UNCHANGED button_pc
  /\ UNCHANGED pmu_vars

\* the GUI task releases the display lock (bsp_display_unlock)
GuiUnlock ==
  /\ cpu_running
  /\ disp.lock = "gui"
  /\ disp' = [disp EXCEPT !.lock = "none"]
  /\ UNCHANGED <<sdkconfig, sm, hw, task, was_pressed, wake_log, cycle>>
  /\ UNCHANGED <<steps, wifi_mgr, restore>>
  /\ UNCHANGED button_pc
  /\ UNCHANGED pmu_vars

\* button_monitor_task sees a press edge: timer reset, backlight on; the
\* press may be dropped by the debounce test, leaving was_pressed false
ButtonTaskPress ==
  /\ cpu_running
  /\ button_pc = "idle"
  /\ hw.button_level = 0
  /\ ~was_pressed
  /\ sm' = sleep_manager_backlight_on_sm(sleep_manager_reset_timer(sm))
  /\ disp' = sleep_manager_backlight_on_disp(sleep_manager_reset_timer(sm),
                                             disp)
  /\ \E debounced \in BOOLEAN : was_pressed' = ~debounced
  /\ cycle' = IF cycle \in {"sleeping", "woken"} THEN cycle ELSE Disturbed
  /\ UNCHANGED <<sdkconfig, hw, task, wake_log>>
  /\ UNCHANGED <<steps, wifi_mgr, restore>>
  /\ UNCHANGED button_pc
  /\ UNCHANGED pmu_vars

\* button_monitor_task sees the release edge
ButtonTaskRelease ==
  /\ cpu_running
  /\ button_pc = "idle"
  /\ hw.button_level # 0
  /\ was_pressed
  /\ was_pressed' = FALSE
  /\ UNCHANGED <<sdkconfig, sm, disp, hw, task, wake_log, cycle>>
  /\ UNCHANGED <<steps, wifi_mgr, restore>>
  /\ UNCHANGED button_pc
  /\ UNCHANGED pmu_vars

\* button_monitor_task, preempted inside its press handling: it has reset
\* the timer and found is_backlight_off set (sleep_manager_is_backlight_off
\* and the test at the head of sleep_manager_backlight_on)
ButtonPressCheck ==
  /\ cpu_running
  /\ button_pc = "idle"
  /\ hw.button_level = 0
  /\ ~was_pressed
  /\ sm.is_backlight_off
  /\ sm' = sleep_manager_reset_timer(sm)
  /\ button_pc' = "backlight_on"
  /\ cycle' = IF cycle \in {"sleeping", "woken"} THEN cycle ELSE Disturbed
  /\ UNCHANGED <<sdkconfig, disp, hw, task, was_pressed, wake_log>>
  /\ UNCHANGED <<steps, wifi_mgr, restore>>
  /\ UNCHANGED pmu_vars

\* bsp_display_backlight_on() of sleep_manager_backlight_on, in the button
\* task
ButtonBacklightOn ==
  /\ cpu_running
  /\ button_pc = "backlight_on"
  /\ disp' = [disp EXCEPT !.backlight = "on"]
  /\ button_pc' = "backlight_flag"
  /\ UNCHANGED <<sdkconfig, sm, hw, task, was_pressed, wake_log, cycle>>
  /\ UNCHANGED <<steps, wifi_mgr, restore>>
  /\ UNCHANGED pmu_vars

\* is_backlight_off = false; sleep_manager_reset_timer(), in the button
\* task, and the rest of its press handling
ButtonBacklightFlag ==
  /\ cpu_running
  /\ button_pc = "backlight_flag"
  /\ sm' = sleep_manager_reset_timer([sm EXCEPT !.is_backlight_off = FALSE])
  /\ button_pc' = "idle"
  /\ \E debounced \in BOOLEAN : was_pressed' = ~debounced
  /\ cycle' = IF cycle \in {"sleeping", "woken"} THEN cycle ELSE Disturbed
  /\ UNCHANGED <<sdkconfig, disp, hw, task, wake_log>>
  /\ UNCHANGED <<steps, wifi_mgr, restore>>
  /\ UNCHANGED pmu_vars

(***************************************************************************)
(* The environment: GPIO levels, the USB cable, the I2C bus                *)
(***************************************************************************)
\* the boot button goes down (active low) or up
ButtonLine ==
  /\ hw' = [hw EXCEPT !.button_level = 1 - @]
  /\ UNCHANGED <<sdkconfig, sm, disp, task, was_pressed, wake_log, cycle>>
  /\ UNCHANGED <<steps, wifi_mgr, restore>>
  /\ UNCHANGED button_pc
  /\ UNCHANGED pmu_vars

\* the touch controller asserts (low) or releases its interrupt line
TouchLine ==
  /\ hw' = [hw EXCEPT !.touch_int_level = 1 - @]
  /\ UNCHANGED <<sdkconfig, sm, disp, task, was_pressed, wake_log, cycle>>
  /\ UNCHANGED <<steps, wifi_mgr, restore>>
  /\ UNCHANGED button_pc
  /\ UNCHANGED pmu_vars

\* the USB cable is plugged or pulled; followed in the builds with a USB
\* inhibitor
UsbCable ==
  /\ sdkconfig.PREVENT_SLEEP_ON_USB \/ sdkconfig.PREVENT_SCREEN_OFF_ON_USB
  /\ hw' = [hw EXCEPT !.vbus_present = ~@]
  /\ UNCHANGED <<sdkconfig, sm, disp, task, was_pressed, wake_log, cycle>>
  /\ UNCHANGED <<steps, wifi_mgr, restore>>
  /\ UNCHANGED button_pc
  /\ UNCHANGED pmu_vars

\* the I2C bus starts or stops failing its transactions; followed in the
\* builds whose sleep manager uses the bus
I2cBus ==
  /\ sdkconfig.PREVENT_SLEEP_ON_USB
  /\ hw' = [hw EXCEPT !.i2c_ok = ~@]
  /\ UNCHANGED <<sdkconfig, sm, disp, task, was_pressed, wake_log, cycle>>
  /\ UNCHANGED <<steps, wifi_mgr, restore>>
  /\ UNCHANGED button_pc
  /\ UNCHANGED pmu_vars

(***************************************************************************)
(* Specifications                                                          *)
(***************************************************************************)
\* the build options of sdkconfig that the claims depend on
SdkConfigs ==
  [PREVENT_SLEEP_ON_USB : BOOLEAN, PREVENT_SCREEN_OFF_ON_USB : BOOLEAN,
   DEEP_SLEEP_ENABLE : BOOLEAN, WIFI_SUSPEND : {FALSE}]

\* a build with deep sleep, both USB inhibitors and WiFi suspend
FullConfig ==
  [PREVENT_SLEEP_ON_USB |-> TRUE, PREVENT_SCREEN_OFF_ON_USB |-> TRUE,
   DEEP_SLEEP_ENABLE |-> TRUE, WIFI_SUSPEND |-> TRUE]

\* a build with light sleep only
PlainConfig ==
  [PREVENT_SLEEP_ON_USB |-> FALSE, PREVENT_SCREEN_OFF_ON_USB |-> FALSE,
   DEEP_SLEEP_ENABLE |-> FALSE, WIFI_SUSPEND |-> FALSE]

\* a build with WiFi that suspends it over light sleep
WifiConfig ==
  [PREVENT_SLEEP_ON_USB |-> FALSE, PREVENT_SCREEN_OFF_ON_USB |-> FALSE,
   DEEP_SLEEP_ENABLE |-> FALSE, WIFI_SUSPEND |-> TRUE]

\* the PMU driver as axp2101_init leaves it, no battery read in progress
PmuIdle ==
  /\ pmu_dev = TRUE
  /\ vbat_reg = 0
  /\ pct = NoPct
  /\ pct_prev = NoPct
  /\ safe = SafeIdle

\* the sleep manager as sleep_manager_init leaves it after a cold boot
SleepBoot(c, n) ==
  /\ sdkconfig = c
  /\ sm = BootSm("NONE")
  /\ disp = BootDisp(n)
  /\ hw = [vbus_present |-> FALSE, i2c_ok |-> TRUE,
           button_level |-> 1, touch_int_level |-> 1]
  /\ task = BootTask
  /\ was_pressed = FALSE
  /\ wake_log = <<>>
  /\ cycle = "awake"
  /\ steps = <<>>
  /\ wifi_mgr = BootWifi(c)
  /\ restore = app_main_restore(BootSm("NONE"))
  /\ button_pc = "idle"

\* app_main has started the display, the PMU and the sleep manager
Init ==
  /\ PmuIdle
  /\ \/ \E c \in SdkConfigs : SleepBoot(c, DefaultLvTimers)
     \/ \E n \in 0..MaxLvTimers : SleepBoot(PlainConfig, n)
     \/ SleepBoot(WifiConfig, DefaultLvTimers)

PollTask ==
  \/ PollDelay
  \/ ShouldTurnOffBacklight
  \/ BacklightOff
  \/ BacklightOffFlag
  \/ DeepCheck
  \/ DeepMark
  \/ DeepDisplay
  \/ DeepEnter
  \/ DeepSleepWake
  \/ ShouldSleep

SleepSequence ==
  \/ SleepEnter
  \/ SleepLock
  \/ SleepPause
  \/ SleepUnlock
  \/ SleepMark
  \/ SleepDisplay
  \/ SleepWifi
  \/ SleepType
  \/ LightSleepStart
  \/ LightSleepWake

WakeSequence ==
  \/ WakeEnter
  \/ WakeLock
  \/ WakeResume
  \/ WakeUnlock
  \/ WakeReset
  \/ WakeMark
  \/ WakeWifi

OtherTasks ==
  \/ GuiLock
  \/ GuiTouchEvent
  \/ GuiTimerHandler
  \/ GuiUnlock
  \/ ButtonTaskPress
  \/ ButtonTaskRelease

Environment ==
  \/ ButtonLine
  \/ TouchLine
  \/ UsbCable
  \/ I2cBus

Next ==
  \/ PollTask
  \/ SleepSequence
  \/ WakeSequence
  \/ OtherTasks
  \/ Environment

\* the firmware with the poll loop as the only caller of the wake sequence
Spec == Init /\ [][Next]_vars

NextApi ==
  \/ Next
  \/ ApiWake

\* the firmware with a further caller of sleep_manager_wake()
SpecApi == Init /\ [][NextApi]_vars

\* button_monitor_task preempted between the statements of its press
\* handling
ButtonTaskPreempted ==
  \/ ButtonPressCheck
  \/ ButtonBacklightOn
  \/ ButtonBacklightFlag

InitPreempt ==
  /\ PmuIdle
  /\ SleepBoot(FullConfig, DefaultLvTimers)

NextPreempt ==
  \/ Next
  \/ ButtonTaskPreempted

\* the firmware of the full build with the button task preempted by the
\* other tasks inside sleep_manager_backlight_on()
SpecPreempt == InitPreempt /\ [][NextPreempt]_vars

InitRestore ==
  /\ PmuIdle
  /\ SleepBoot(FullConfig, DefaultLvTimers)

NextRestore ==
  \/ Next
  \/ ApiGetLastSleepType

\* the firmware of the full build with further callers of
\* sleep_manager_get_last_sleep_type()
SpecRestore == InitRestore /\ [][NextRestore]_vars

\* the sleep manager at rest while the PMU specifications run
SleepIdle == SleepBoot(FullConfig, DefaultLvTimers)

InitPmu ==
  /\ pmu_dev = FALSE
  /\ vbat_reg = 0
  /\ pct = NoPct
  /\ pct_prev = NoPct
  /\ safe = SafeIdle
  /\ SleepIdle

NextPmu ==
  \/ axp2101_init
  \/ SafeCall
  \/ SafeVoltageAttempt
  \/ SafePercentAttempt
  \/ SafeChargingAttempt

\* the battery telemetry reader with a faulty bus
SpecPmu == InitPmu /\ [][NextPmu]_vars

InitCurve ==
  /\ pmu_dev = TRUE
  /\ vbat_reg \in 0..UINT16_MAX
  /\ pct = NoPct
  /\ pct_prev = NoPct
  /\ safe = SafeIdle
  /\ SleepIdle

NextCurve == GetBatteryPercent

\* the voltage-to-percent curve over every 16-bit register value
SpecCurve == InitCurve /\ [][NextCurve]_vars

(***************************************************************************)
(* Properties of the telemetry reader                                      *)
(***************************************************************************)
\* p is the value of the two-segment calibration curve at mv, stated by the
\* floor's defining inequalities
OnCurve(mv, p) ==
  /\ p \in 0..100
  /\ (mv <= 3300) => (p = 0)
  /\ (mv >= 4200) => (p = 100)
  /\ (3300 < mv /\ mv < 3700) =>
       (p * 400 <= (mv - 3300) * 50 /\ (mv - 3300) * 50 < (p + 1) * 400)
  /\ (3700 <= mv /\ mv < 4200) =>
       ((p - 50) * 500 <= (mv - 3700) * 50
          /\ (mv - 3700) * 50 < (p - 50 + 1) * 500)
  /\ (mv = 3300) => (p = 0)
  /\ (mv = 3500) => (p = 25)
  /\ (mv = 3700) => (p = 50)
  /\ (mv = 3950) => (p = 75)
  /\ (mv = 4200) => (p = 100)
  /\ (mv < 3300 \/ mv > 4200) => (p \in {0, 100})

\* C1: every successful axp2101_get_battery_percent call returns the value
\* of the two-segment calibration curve at the raw voltage the bus returned:
\* 0 up to 3300 mV, 100 from 4200 mV, floor((mv-3300)*50/400) below 3700 mV
\* and 50 + floor((mv-3700)*50/500) from 3700 mV, for every raw value
\* 0..65535.
C1_CurveExact ==
  (pct.ret = "ESP_OK") => (pct.mv = vbat_reg /\ OnCurve(pct.mv, pct.percent))

\* C1 witness: a successful call has read 3950 mV and returned 75.
C1_Witness ==
  pct.ret = "ESP_OK" /\ pct.mv = 3950 /\ pct.percent = 75

\* C2: the voltage-to-percent map is monotonically non-decreasing: of two
\* successful calls, the one that read the lower raw voltage returned the
\* lower or equal percentage, and both results lie in 0..100.
C2_Monotone ==
  (pct.ret = "ESP_OK" /\ pct_prev.ret = "ESP_OK") =>
     /\ pct.percent \in 0..100
     /\ pct_prev.percent \in 0..100
     /\ (pct_prev.mv < pct.mv) => (pct_prev.percent <= pct.percent)

\* C2 witness: two successive successful calls read 3699 mV and 3700 mV,
\* either side of the segment boundary.
C2_Witness ==
  /\ pct.ret = "ESP_OK" /\ pct_prev.ret = "ESP_OK"
  /\ pct_prev.mv = 3699 /\ pct.mv = 3700
  /\ pct_prev.percent <= pct.percent

\* a logged voltage read failed on the bus
ReadFailed(r) == r.ret # "ESP_OK"
\* a logged voltage read succeeded with a value outside [2500,4500] mV
ReadOutOfBounds(r) ==
  r.ret = "ESP_OK" /\ (r.voltage_mv < 2500 \/ r.voltage_mv > 4500)
\* a logged read that the voltage block accepts
GoodVoltage(r) == r.ret = "ESP_OK" /\ r.voltage_mv >= 2500 /\ r.voltage_mv <= 4500
\* a logged read that the percent block accepts
GoodPercent(r) == r.ret = "ESP_OK" /\ r.percent >= 0 /\ r.percent <= 100
\* a logged read that the charging block accepts
GoodCharging(r) == r.ret = "ESP_OK"

\* C3: the voltage axp2101_get_battery_data_safe writes is always within
\* [2500,4500] mV: it is an accepted reading of the call or the default, an
\* out-of-bounds reading (5000 mV) is never returned, and after three
\* out-of-bounds readings the output is exactly 3700 mV.
C3_VoltageInBounds ==
  /\ ("voltage" \in safe.written) =>
       /\ safe.voltage_mv >= 2500 /\ safe.voltage_mv <= 4500
       /\ \/ safe.voltage_mv = 3700
          \/ \E i \in 1..Len(safe.v_reads) :
               GoodVoltage(safe.v_reads[i])
                 /\ safe.v_reads[i].voltage_mv = safe.voltage_mv
  /\ (/\ safe.pc # "voltage"
      /\ Len(safe.v_reads) = 3
      /\ \A i \in 1..3 : ReadOutOfBounds(safe.v_reads[i]))
       => ("voltage" \in safe.written /\ safe.voltage_mv = 3700)

\* C3 witness: a finished call whose three voltage attempts all read
\* 5000 mV returned the default.
C3_Witness ==
  /\ safe.pc = "done"
  /\ Len(safe.v_reads) = 3
  /\ \A i \in 1..3 : safe.v_reads[i] = [ret |-> "ESP_OK", voltage_mv |-> 5000]
  /\ safe.voltage_mv = 3700

Obtained(f) ==
  LET reads == IF f = "voltage" THEN safe.v_reads
               ELSE IF f = "percent" THEN safe.p_reads ELSE safe.c_reads
      last == reads[Len(reads)]
  IN reads # <<>> /\
       (IF f = "voltage" THEN GoodVoltage(last)
        ELSE IF f = "percent" THEN GoodPercent(last) ELSE GoodCharging(last))

\* the output cell of the field holds the documented default
HoldsDefault(f) ==
  IF f = "voltage" THEN safe.voltage_mv = 3700
  ELSE IF f = "percent" THEN safe.percent = 50
  ELSE safe.is_charging = FALSE

\* C5: with the PMU initialised, the call returns ESP_OK if and only if at
\* least one requested field was obtained from an accepted read; every
\* requested field that was not obtained holds its default (3700 mV, 50 %,
\* not charging), whatever the status; exactly the requested fields are
\* written.
C5_StatusAndDefaults ==
  (safe.pc = "done" /\ pmu_dev) =>
     /\ safe.ret \in {"ESP_OK", "ESP_FAIL"}
     /\ (safe.ret = "ESP_OK") <=> (\E f \in safe.req : Obtained(f))
     /\ \A f \in safe.req : ~Obtained(f) => HoldsDefault(f)
     /\ safe.written = safe.req
     /\ \A f \in Fields \ safe.req : ~Obtained(f)

\* C5 witness: a call that requested all three fields and obtained none
\* returned ESP_FAIL with the three defaults written.
C5_Witness ==
  /\ safe.pc = "done" /\ pmu_dev
  /\ safe.req = Fields
  /\ safe.ret = "ESP_FAIL"
  /\ Len(safe.v_reads) = 3 /\ Len(safe.p_reads) = 3 /\ Len(safe.c_reads) = 3
  /\ safe.voltage_mv = 3700 /\ safe.percent = 50 /\ safe.is_charging = FALSE

(***************************************************************************)
(* Sleep/wake coordinator: properties                                      *)
(***************************************************************************)
\* the positions of sleep_check_task outside sleep_manager_sleep/_wake
PollLoopPcs ==
  {"delay", "should_turn_off_backlight", "backlight_off",
   "backlight_off_flag", "deep_check", "should_sleep"}

\* the build inhibits sleep on USB and the status read shows VBUS present
UsbReadAsPresent ==
  /\ sdkconfig.PREVENT_SLEEP_ON_USB
  /\ hw.i2c_ok
  /\ hw.vbus_present

\* C6: with the USB sleep inhibitor built in and the VBUS bit read as set,
\* sleep_manager_should_sleep() is false whatever the inactive time, and a
\* step of the poll loop at the sleep decision (or at the entry checks of
\* sleep_manager_sleep) returns to the poll delay without touching the
\* display, the timers or the sleeping flag.
C6_UsbInhibitsSleep ==
  [][UsbReadAsPresent =>
       /\ ~sleep_manager_should_sleep(sdkconfig, sm, hw)
       /\ (task.pc \in {"should_sleep", "sleep"} /\ task' # task)
            => /\ task'.pc = "delay"
               /\ sm' = sm
               /\ disp' = disp]_vars

\* the sleep decision is taken under USB after the longest inactivity
C6_Witness ==
  /\ UsbReadAsPresent
  /\ task.pc = "should_sleep"
  /\ ~sm.is_sleeping
  /\ sm.elapsed_us = MaxElapsedUs
  /\ sleep_manager_get_inactive_time(sm) >= SLEEP_TIMEOUT_MS

\* what a completed wake sequence leaves behind
AwakeRestored ==
  /\ ~sm.is_sleeping
  /\ disp.backlight = "on"
  /\ ~sm.is_backlight_off
  /\ sm.saved_timer_count = 0
  /\ disp.paused = {}
  /\ disp.invalidation
  /\ sleep_manager_get_inactive_time(sm) = 0

\* a call of sleep_manager_wake() made while not sleeping
WakeNoOp == [ret |-> "ESP_OK", was_sleeping |-> FALSE]

\* C7 as stated: every call of sleep_manager_wake() returns success, a
\* wake from sleep leaves the device awake (display on, no task suspended,
\* activity timer reset), and the second of two calls in a row finds it so
\* and changes nothing.
C7_BothCallsSucceed ==
  /\ \A i \in 1..Len(wake_log) : wake_log[i].ret = "ESP_OK"
  /\ (Len(wake_log) = 2) => (wake_log[2] = WakeNoOp)
  /\ (task.pc = "delay" /\ Len(wake_log) >= 1 /\ wake_log[1].was_sleeping)
       => AwakeRestored

\* C7 (amended): a call made while awake changes nothing and returns
\* success; a call made while sleeping that returns success leaves the
\* display on, no task suspended, the activity timer reset and the state
\* awake, so the next call in a row is a no-op returning success; the only
\* other return is ESP_ERR_TIMEOUT, from a call made while sleeping, which
\* leaves the backlight on but the state sleeping and redraw disabled.
C7_WakeIdempotent ==
  [][/\ (task.pc = "wake" /\ ~sm.is_sleeping /\ task' # task)
          => /\ sm' = sm
             /\ disp' = disp
             /\ task'.pc = "delay"
             /\ task'.wake_ret = "ESP_OK"
             /\ wake_log' = Append(wake_log, WakeNoOp)
     /\ \A i \in 1..Len(wake_log) :
          \/ wake_log[i].ret = "ESP_OK"
          \/ wake_log[i].ret = "ESP_ERR_TIMEOUT" /\ wake_log[i].was_sleeping
     /\ (Len(wake_log) = 2 /\ wake_log[1].ret = "ESP_OK")
          => (wake_log[2] = WakeNoOp)
     /\ (task.pc = "delay" /\ Len(wake_log) >= 1
           /\ wake_log[Len(wake_log)].ret = "ESP_OK"
           /\ (\E i \in 1..Len(wake_log) : wake_log[i].was_sleeping))
          => AwakeRestored
     /\ (task.pc = "delay" /\ Len(wake_log) >= 1
           /\ wake_log[Len(wake_log)].ret = "ESP_ERR_TIMEOUT")
          => /\ sm.is_sleeping
             /\ disp.backlight = "on"
             /\ ~disp.invalidation]_vars

\* a wake from sleep succeeded and a second call in a row returned
C7_Witness ==
  /\ task.pc = "delay"
  /\ Len(wake_log) = 2
  /\ wake_log[1] = [ret |-> "ESP_OK", was_sleeping |-> TRUE]
  /\ wake_log[2] = WakeNoOp
  /\ task.caller = "api"

Min(a, b) == IF a < b THEN a ELSE b

\* C8: the undisturbed cycle.  While nothing has inhibited or reset it, the
\* poll loop has the backlight on until the inactive time reaches the
\* backlight timeout, is dimmed (backlight off) from then until it reaches
\* the sleep timeout, is in light sleep with inactive time at or beyond the
\* sleep timeout, and after a wake source fired and the wake sequence got
\* the display lock it is awake again with the backlight on, the inactive
\* time 0 and no task suspended.
C8_NormalCycle ==
  /\ (cycle = "awake")
       => /\ ~sm.is_sleeping
          /\ task.pc \in PollLoopPcs
          /\ (task.pc # "backlight_off_flag") => (disp.backlight = "on")
          /\ (task.pc \in {"deep_check", "should_sleep", "delay"})
               => (sleep_manager_get_inactive_time(sm) < BACKLIGHT_TIMEOUT_MS)
  /\ (cycle = "dimmed")
       => /\ disp.backlight = "off"
          /\ sm.is_backlight_off
          /\ sleep_manager_get_inactive_time(sm) >= BACKLIGHT_TIMEOUT_MS
          /\ (task.pc \in PollLoopPcs)
               => (~sm.is_sleeping /\ sm.saved_timer_count = 0)
          /\ (task.pc = "delay")
               => (sleep_manager_get_inactive_time(sm) < SLEEP_TIMEOUT_MS)
  /\ (cycle = "sleeping" /\ task.pc = "light_sleep")
       => /\ sm.is_sleeping
          /\ disp.backlight = "off"
          /\ sleep_manager_get_inactive_time(sm) >= SLEEP_TIMEOUT_MS
          /\ sm.saved_timer_count = Min(disp.timer_count, MAX_TIMERS)
          /\ disp.paused = 1..Min(disp.timer_count, MAX_TIMERS)
  /\ (cycle = "woken")
       => /\ task.pc = "delay"
          /\ AwakeRestored

\* the cycle went awake, dimmed, light sleep, and a button press woke it
C8_Witness ==
  /\ cycle = "woken"
  /\ hw.button_level = 0
  /\ hw.touch_int_level = 1
  /\ wake_log = <<[ret |-> "ESP_OK", was_sleeping |-> TRUE]>>

\* C9: pause_lvgl_timers remembers and pauses exactly the first
\* min(n, MAX_TIMERS) of the n registered timers and leaves the others
\* running; at all times saved_timer_count is at most MAX_TIMERS and every
\* slot from saved_timer_count on is NULL.
C9_PauseBounded ==
  /\ sm.saved_timer_count \in 0..MAX_TIMERS
  /\ DOMAIN sm.saved_timers = 0..(MAX_TIMERS - 1)
  /\ \A i \in 0..(MAX_TIMERS - 1) :
       (i >= sm.saved_timer_count) => (sm.saved_timers[i] = NULL)
  /\ (task.pc = "sleep_unlock")
       => LET k == Min(disp.timer_count, MAX_TIMERS) IN
            /\ sm.saved_timer_count = k
            /\ \A i \in 0..(k - 1) : sm.saved_timers[i] = i + 1
            /\ disp.paused = 1..k
            /\ (1..disp.timer_count) \ disp.paused = (k + 1)..disp.timer_count

\* more timers than slots: MAX_TIMERS paused, the others running
C9_Witness ==
  /\ task.pc = "sleep_unlock"
  /\ disp.timer_count = MaxLvTimers
  /\ disp.timer_count > MAX_TIMERS
  /\ Cardinality(disp.paused) = MAX_TIMERS
  /\ Cardinality((1..disp.timer_count) \ disp.paused)
       = MaxLvTimers - MAX_TIMERS

\* backlight off with the CPU running the poll loop and not marked sleeping
Dimmed ==
  /\ sm.is_backlight_off
  /\ ~sm.is_sleeping
  /\ task.pc \in PollLoopPcs

\* C10: dimming does not depend on sleep.  Marking the backlight off leaves
\* it off with no timer paused and the state not sleeping; while dimmed no
\* timer is paused; a dimmed poll loop stays dimmed through its own steps;
\* and the loop moves towards light sleep only from an inactive time at or
\* beyond the sleep timeout, towards deep sleep only from a user inactive
\* time at or beyond the deep-sleep timeout in a build with deep sleep.
C10_DimWithoutSleep ==
  [][/\ Dimmed => /\ disp.backlight = "off"
                  /\ sm.saved_timer_count = 0
                  /\ disp.paused = {}
     /\ (task.pc = "backlight_off_flag" /\ task' # task /\ ~sm.is_sleeping)
          => Dimmed'
     /\ (Dimmed /\ task' # task /\ task'.pc \in PollLoopPcs) => Dimmed'
     /\ (task.pc = "should_sleep" /\ task' # task
           /\ sleep_manager_get_inactive_time(sm) < SLEEP_TIMEOUT_MS)
          => (task'.pc = "delay" /\ sm' = sm /\ disp' = disp)
     /\ (task.pc = "deep_check" /\ task' # task
           /\ (~sdkconfig.DEEP_SLEEP_ENABLE
                 \/ sleep_manager_get_user_inactive_time(sm)
                      < DEEP_SLEEP_TIMEOUT_MS))
          => (task'.pc = "should_sleep" /\ sm' = sm /\ disp' = disp)]_vars

\* dimmed for more than one poll period, the sleep timeout not reached
C10_Witness ==
  /\ Dimmed
  /\ task.pc = "delay"
  /\ disp.backlight = "off"
  /\ sleep_manager_get_inactive_time(sm)
       >= BACKLIGHT_TIMEOUT_MS + POLL_PERIOD_MS
  /\ sleep_manager_get_inactive_time(sm) < SLEEP_TIMEOUT_MS

\* sleep_manager_sleep() has returned the light-sleep primitive's error
SleepReturnedError ==
  /\ task.pc = "delay"
  /\ task.sleep_ret = "ESP_FAIL"

\* C11: when the light-sleep primitive fails, sleep_manager_sleep() runs the
\* wake sequence before it returns the error, so on return the display is
\* on, no task is suspended and the state is awake.
C11_ErrorPathWakes ==
  SleepReturnedError
    => /\ ~sm.is_sleeping
       /\ disp.backlight = "on"
       /\ sm.saved_timer_count = 0
       /\ disp.paused = {}

\* C12: the last-sleep kind is consumed exactly once.  The record changes
\* only when a sleep entry writes its kind or when a call of the getter
\* with a non-NULL output returns true with the recorded kind and resets
\* the record to NONE; a call that returns true does all of that; a call
\* that returns false had a NULL output or found the record NONE, and
\* leaves the record and the caller's output as they were.
C12_ConsumedOnce ==
  [][/\ (sm'.last_sleep_type # sm.last_sleep_type)
          => \/ task.pc = "sleep_type" /\ sm'.last_sleep_type = "LIGHT"
             \/ task.pc = "deep_enter" /\ sm'.last_sleep_type = "DEEP"
             \/ /\ sm'.last_sleep_type = "NONE"
                /\ restore' = [found |-> TRUE,
                               out_type |-> sm.last_sleep_type,
                               out_null |-> FALSE]
     /\ (task' = task /\ restore' # restore /\ restore'.found)
          => /\ ~restore'.out_null
             /\ sm.last_sleep_type # "NONE"
             /\ restore'.out_type = sm.last_sleep_type
             /\ sm'.last_sleep_type = "NONE"
     /\ (task' = task /\ restore' # restore /\ ~restore'.found)
          => /\ restore'.out_null \/ sm.last_sleep_type = "NONE"
             /\ restore'.out_type = restore.out_type
             /\ sm' = sm]_vars

\* a light sleep was recorded, one call consumed it, and the next call
\* returned false and left the caller's LIGHT in place
C12_Witness ==
  /\ restore = [found |-> FALSE, out_type |-> "LIGHT", out_null |-> FALSE]
  /\ sm.last_sleep_type = "NONE"
  /\ "last_type_light" \in {steps[i] : i \in 1..Len(steps)}

\* the poll task is in sleep_manager_lock_display_with_retry
LockPcs == {"sleep_lock", "wake_lock"}

\* C13 as stated: a display-lock acquisition of the sleep or of the wake
\* sequence makes at most 5 lock attempts before it gives up.
C13_FiveAttempts ==
  [][(task.pc \in LockPcs /\ task' # task) => (task.attempt + 1 <= 5)]_vars

\* C13 (amended): a display-lock acquisition of the sleep or of the wake
\* sequence makes at most LOCK_RETRIES + 1 = 6 attempts.  An attempt that
\* finds the lock free takes it; a failed attempt costs the lock timeout
\* and the 50 ms delay; after the failure of attempt number 6 the
\* acquisition gives up and the sequence returns ESP_ERR_TIMEOUT.
C13_BoundedLock ==
  [][(task.pc \in LockPcs /\ task' # task)
       => /\ task.attempt + 1 <= LOCK_RETRIES + 1
          /\ (disp.lock = "none")
               => /\ disp'.lock = "sleep"
                  /\ task'.pc \in {"sleep_pause", "wake_resume"}
          /\ (disp.lock # "none" /\ task.attempt < LOCK_RETRIES)
               => /\ task'.pc = task.pc
                  /\ task'.attempt = task.attempt + 1
                  /\ disp' = disp
                  /\ sm' = time_passes(sm, (LOCK_TIMEOUT_MS + LOCK_DELAY_MS)
                                             * 1000)
          /\ (disp.lock # "none" /\ task.attempt = LOCK_RETRIES)
               => /\ task'.pc = "delay"
                  /\ disp' = disp
                  /\ (task.pc = "sleep_lock")
                       => (task'.sleep_ret = "ESP_ERR_TIMEOUT")
                  /\ (task.pc = "wake_lock")
                       => (task'.wake_ret = "ESP_ERR_TIMEOUT")]_vars

\* the sixth attempt of the sleep sequence is about to fail
C13_Witness ==
  /\ task.pc = "sleep_lock"
  /\ task.attempt = LOCK_RETRIES
  /\ task.attempt + 1 = 6
  /\ disp.lock = "gui"

\* sleep_manager_sleep() has returned the timeout of its display lock
SleepTimedOut ==
  /\ task.pc = "delay"
  /\ task.sleep_ret = "ESP_ERR_TIMEOUT"

\* C14: a sleep entry that never gets the display lock returns
\* ESP_ERR_TIMEOUT having run none of the statements of the sequence (no
\* timer paused, no display_sleep, no write of last_sleep_type, no call of
\* the light-sleep primitive); each of its steps leaves the display, the
\* backlight flag, the saved timers and last_sleep_type as they were, and
\* it returns with the state not sleeping.
C14_LockTimeoutAborts ==
  [][/\ SleepTimedOut
          => /\ steps = <<>>
             /\ ~sm.is_sleeping
             /\ sm.saved_timer_count = 0
             /\ disp.paused = {}
     /\ (task.pc = "sleep" /\ task' # task)
          => /\ disp' = disp
             /\ sm'.last_sleep_type = sm.last_sleep_type
             /\ sm'.is_backlight_off = sm.is_backlight_off
     /\ (task.pc = "sleep_lock" /\ task' # task /\ disp.lock # "none")
          => /\ disp' = disp
             /\ ~sm'.is_sleeping
             /\ sm'.last_sleep_type = sm.last_sleep_type
             /\ sm'.is_backlight_off = sm.is_backlight_off
             /\ sm'.saved_timer_count = 0
             /\ sm'.saved_timers = sm.saved_timers
             /\ task'.pc \in {"sleep_lock", "delay"}
             /\ (task'.pc = "delay") => SleepTimedOut']_vars

\* the sleep entry gave up while the GUI task held the display lock
C14_Witness ==
  /\ SleepTimedOut
  /\ disp.lock = "gui"
  /\ sleep_manager_get_inactive_time(sm) >= SLEEP_TIMEOUT_MS

\* the statements logged since the poll delay, as a set
StepSet == {steps[i] : i \in 1..Len(steps)}

\* the statements of a light-sleep entry in the build c, in the claim's order
LightSleepSteps(c) ==
  <<"lock", "pause_timers", "invalidation_off", "unlock", "mark_sleeping",
    "display_sleep">>
  \o (IF c.WIFI_SUSPEND THEN <<"suspend_wifi">> ELSE <<>>)
  \o <<"last_type_light", "light_sleep_start">>

\* the positions of sleep_manager_sleep before it marks the state sleeping
BeforeSleepMarkPcs == {"sleep_lock", "sleep_pause", "sleep_unlock", "sleep_mark"}

\* the positions of sleep_manager_sleep from the mark to the primitive
AfterSleepMarkPcs ==
  {"sleep_display", "sleep_wifi", "sleep_type", "light_sleep_start",
   "light_sleep"}

\* C15: a light-sleep entry that calls the light-sleep primitive has run, in
\* this order: display lock taken, timers paused (and redraw tracking
\* disabled), display lock released, state marked sleeping, display_sleep(),
\* the WiFi suspend where built in, (the write of last_sleep_type) and the
\* primitive.  So the CPU is never halted in the primitive with the display
\* lock held by the sequence, and the state is marked sleeping only with
\* the timers already paused.
C15_SleepOrder ==
  /\ ("light_sleep_start" \in StepSet)
       => /\ Len(steps) >= Len(LightSleepSteps(sdkconfig))
          /\ SubSeq(steps, 1, Len(LightSleepSteps(sdkconfig)))
               = LightSleepSteps(sdkconfig)
  /\ (task.pc = "light_sleep")
       => /\ steps = LightSleepSteps(sdkconfig)
          /\ disp.lock # "sleep"
  /\ (task.pc \in BeforeSleepMarkPcs) => ~sm.is_sleeping
  /\ (task.pc \in AfterSleepMarkPcs)
       => /\ sm.is_sleeping
          /\ disp.lock # "sleep"
          /\ sm.saved_timer_count = Min(disp.timer_count, MAX_TIMERS)
          /\ disp.paused = 1..Min(disp.timer_count, MAX_TIMERS)

\* halted in light sleep in a build that suspends WiFi, the GUI task having
\* been holding the display lock when the CPU stopped
C15_Witness ==
  /\ task.pc = "light_sleep"
  /\ sdkconfig.WIFI_SUSPEND
  /\ steps = LightSleepSteps(sdkconfig)
  /\ "suspend_wifi" \in StepSet
  /\ ~wifi_mgr.initialized
  /\ disp.lock = "gui"

\* the last n statements logged
LastSteps(n) ==
  IF Len(steps) < n THEN <<>>
  ELSE SubSeq(steps, Len(steps) - n + 1, Len(steps))

\* a wake sequence that found the state sleeping has returned ESP_OK
WakeCompleted ==
  /\ task.pc = "delay"
  /\ Len(wake_log) >= 1
  /\ wake_log[Len(wake_log)] = [ret |-> "ESP_OK", was_sleeping |-> TRUE]

\* the wake order of the claim in the build c: WiFi resumed, then awake
ClaimedWakeSteps(c) ==
  <<"display_wake", "lock", "invalidation_on", "resume_timers", "unlock",
    "reset_timer">>
  \o (IF c.WIFI_SUSPEND THEN <<"resume_wifi">> ELSE <<>>)
  \o <<"mark_awake">>

\* the wake order with the state marked awake before WiFi is resumed
WakeSteps(c) ==
  <<"display_wake", "lock", "invalidation_on", "resume_timers", "unlock",
    "reset_timer", "mark_awake">>
  \o (IF c.WIFI_SUSPEND THEN <<"resume_wifi">> ELSE <<>>)

\* C16 as stated: a completed wake sequence has run display on, lock,
\* redraw re-enabled, timers resumed, unlock, timer reset, the WiFi resume
\* where built in, and marked the state awake as its last step.
C16_AwakeLast ==
  WakeCompleted
    => /\ LastSteps(Len(ClaimedWakeSteps(sdkconfig)))
            = ClaimedWakeSteps(sdkconfig)
       /\ steps[Len(steps)] = "mark_awake"

\* C16 (amended): a completed wake sequence has run, in this order: display
\* on, lock, redraw re-enabled, timers resumed, unlock, activity timer
\* reset, state marked awake and, where WiFi suspend is built in, the WiFi
\* resume; marking the state awake is the last step only in the builds
\* without WiFi suspend, and WiFi is resumed with the state already awake.
C16_WakeOrder ==
  /\ WakeCompleted
       => /\ LastSteps(Len(WakeSteps(sdkconfig))) = WakeSteps(sdkconfig)
          /\ (~sdkconfig.WIFI_SUSPEND) => (steps[Len(steps)] = "mark_awake")
          /\ sdkconfig.WIFI_SUSPEND => (steps[Len(steps)] = "resume_wifi")
          /\ ~sm.is_sleeping
  /\ (task.pc = "wake_wifi")
       => /\ sdkconfig.WIFI_SUSPEND
          /\ ~sm.is_sleeping
          /\ steps[Len(steps)] = "mark_awake"

\* a wake of a build with WiFi suspend has completed and resumed WiFi
C16_Witness ==
  /\ WakeCompleted
  /\ sdkconfig.WIFI_SUSPEND
  /\ wifi_mgr.initialized
  /\ steps[Len(steps)] = "resume_wifi"

\* the positions of sleep_manager_wake after its is_sleeping test
WakePcs ==
  {"wake_lock", "wake_resume", "wake_unlock", "wake_reset", "wake_mark",
   "wake_wifi"}

\* C17 as stated: when sleep_manager_wake() completes after a light sleep,
\* inactive_ms() and user_inactive_ms() are both 0, so the user inactive
\* time is below the deep-sleep timeout at the poll tick that follows.
C17_BothTimersReset ==
  WakeCompleted
    => /\ sleep_manager_get_inactive_time(sm) = 0
       /\ sleep_manager_get_user_inactive_time(sm) = 0
       /\ sleep_manager_get_user_inactive_time(sm) + POLL_PERIOD_MS
            < DEEP_SLEEP_TIMEOUT_MS

\* C17 (amended): the wake sequence resets the general timestamp only.  Its
\* reset step sets the inactive time to 0 and leaves the user-activity
\* timestamp alone, no step of the wake sequence moves the user-activity
\* timestamp, and when the wake completes inactive_ms() is 0; the user
\* inactive time is reset only by the touch and button handlers.
C17_GeneralTimerReset ==
  [][/\ (task.pc = "wake_reset" /\ task' # task)
          => /\ sm'.elapsed_us = 0
             /\ sm'.user_elapsed_us = sm.user_elapsed_us
     /\ (task.pc \in WakePcs /\ task' # task)
          => (sm'.user_elapsed_us >= sm.user_elapsed_us)
     /\ WakeCompleted => (sleep_manager_get_inactive_time(sm) = 0)]_vars

\* a wake has completed in a build with deep sleep with the user inactive
\* time at the deep-sleep timeout and both lines released: the deep-sleep
\* check of the next poll tick fires
C17_Witness ==
  /\ WakeCompleted
  /\ sdkconfig.DEEP_SLEEP_ENABLE
  /\ sleep_manager_get_inactive_time(sm) = 0
  /\ sleep_manager_get_user_inactive_time(sm) >= DEEP_SLEEP_TIMEOUT_MS
  /\ hw.button_level = 1
  /\ hw.touch_int_level = 1
  /\ ~sleep_manager_is_usb_connected(sdkconfig, hw)

\* C18: a wake that timed out on the display lock is attempted again on the
\* following poll tick.  Whenever the poll loop is back at its delay with
\* the state still marked sleeping, the tick that just ended has called
\* sleep_manager_wake().
C18_WakeRetried ==
  (task.pc = "delay" /\ sm.is_sleeping) => (Len(wake_log) >= 1)

\* the positions of sleep_check_task between its deep-sleep decision and
\* the power-down
DeepPcs == {"deep_mark", "deep_display", "deep_enter", "deep_sleep"}

\* C19: the deep-sleep path is entered only by the deep-sleep check, and
\* only in a build with deep sleep, from a state not marked sleeping, with
\* the user inactive time at or beyond the deep-sleep timeout, VBUS not
\* read as present in a build with the USB inhibitor, and the touch and
\* button lines both released at the decision; the check itself changes
\* nothing, so an aborted decision leaves the state as it was and goes on
\* to the light-sleep check.
C19_DeepSleepGuard ==
  [][/\ (task'.pc \in DeepPcs /\ task.pc \notin DeepPcs)
          => (task.pc = "deep_check" /\ task'.pc = "deep_mark")
     /\ (task.pc = "deep_check" /\ task' # task)
          => /\ sm' = sm
             /\ disp' = disp
             /\ task'.pc \in {"deep_mark", "should_sleep"}
             /\ (task'.pc = "deep_mark")
                  => /\ sdkconfig.DEEP_SLEEP_ENABLE
                     /\ ~sm.is_sleeping
                     /\ sleep_manager_get_user_inactive_time(sm)
                          >= DEEP_SLEEP_TIMEOUT_MS
                     /\ ~(sdkconfig.PREVENT_SLEEP_ON_USB
                            /\ sleep_manager_is_usb_connected(sdkconfig, hw))
                     /\ hw.touch_int_level = 1
                     /\ hw.button_level = 1]_vars

\* the chip has powered down for deep sleep in a build with the USB
\* inhibitor
C19_Witness ==
  /\ task.pc = "deep_sleep"
  /\ sdkconfig.PREVENT_SLEEP_ON_USB
  /\ sm.last_sleep_type = "DEEP"
  /\ steps = <<"mark_sleeping", "display_sleep", "last_type_deep",
               "deep_sleep_start">>

\* the place of the statement x in the log, 0 when it has not run
StepIndex(x) ==
  IF x \in StepSet THEN CHOOSE i \in 1..Len(steps) : steps[i] = x ELSE 0

\* the statements of the deep-sleep path, in their order
DeepSleepSteps ==
  <<"mark_sleeping", "display_sleep", "last_type_deep", "deep_sleep_start">>

\* C20 as stated: when the chip powers down for deep sleep the UI timers
\* have been suspended, then the display turned off, then DEEP recorded.
C20_DeepSuspendsTasks ==
  (task.pc = "deep_sleep")
    => /\ StepIndex("pause_timers") > 0
       /\ StepIndex("pause_timers") < StepIndex("display_sleep")
       /\ StepIndex("display_sleep") < StepIndex("last_type_deep")
       /\ StepIndex("last_type_deep") < StepIndex("deep_sleep_start")
       /\ disp.paused = 1..Min(disp.timer_count, MAX_TIMERS)

\* C20 (amended): a deep-sleep entry performs, before the power-down call
\* and in this order: state marked sleeping, display_sleep(), DEEP
\* recorded; it does not suspend the UI timers, which are all still
\* running, with nothing saved, when the chip powers down.
C20_DeepOrder ==
  /\ (task.pc = "deep_mark") => (steps = <<>>)
  /\ (task.pc = "deep_display") => (steps = SubSeq(DeepSleepSteps, 1, 1))
  /\ (task.pc = "deep_enter") => (steps = SubSeq(DeepSleepSteps, 1, 2))
  /\ (task.pc = "deep_sleep")
       => /\ steps = DeepSleepSteps
          /\ sm.is_sleeping
          /\ sm.last_sleep_type = "DEEP"
  /\ (task.pc \in DeepPcs)
       => /\ "pause_timers" \notin StepSet
          /\ disp.paused = {}
          /\ sm.saved_timer_count = 0
          /\ disp.lock # "sleep"

\* powered down for deep sleep with registered timers, none of them paused
C20_Witness ==
  /\ task.pc = "deep_sleep"
  /\ steps = DeepSleepSteps
  /\ disp.timer_count > 0
  /\ disp.paused = {}
  /\ disp.backlight = "off"

\* an inhibitor that sleep_manager_sleep() tests at its entry is active
UsbInhibitorActive ==
  /\ sdkconfig.PREVENT_SLEEP_ON_USB
  /\ sleep_manager_is_usb_connected(sdkconfig, hw)

LineInhibitorActive == hw.touch_int_level = 0 \/ hw.button_level = 0

\* C21 as stated: a sleep entry aborted by an inhibitor (USB, touch line,
\* button line) returns ESP_OK with the activity timer reset, so the
\* inactive time is 0 when it returns.
C21_AbortResetsTimer ==
  [][(task.pc = "sleep" /\ task' # task /\ task'.pc = "delay")
       => /\ task'.sleep_ret = "ESP_OK"
          /\ sleep_manager_get_inactive_time(sm') = 0]_vars

\* C21 (amended): a sleep entry made while not sleeping aborts exactly when
\* an inhibitor is active, returns ESP_OK and leaves display and sleeping
\* flag alone.  Aborted by the touch or the button line it resets both
\* timestamps, so the inactive time is 0; aborted by USB it returns
\* without resetting anything, the inactive time staying at or beyond the
\* sleep timeout, and it is sleep_manager_should_sleep() that keeps the
\* check from reaching the entry again while VBUS is read as present.
C21_InhibitorAbort ==
  [][(task.pc = "sleep" /\ task' # task /\ ~sm.is_sleeping)
       => /\ (task'.pc = "delay")
               <=> (UsbInhibitorActive \/ LineInhibitorActive)
          /\ (task'.pc = "delay")
               => /\ task'.sleep_ret = "ESP_OK"
                  /\ disp' = disp
                  /\ ~sm'.is_sleeping
                  /\ steps' = <<>>
          /\ UsbInhibitorActive
               => /\ sm' = sm
                  /\ ~sleep_manager_should_sleep(sdkconfig, sm', hw)
          /\ (~UsbInhibitorActive /\ LineInhibitorActive)
               => /\ sleep_manager_get_inactive_time(sm') = 0
                  /\ sleep_manager_get_user_inactive_time(sm') = 0
                  /\ sm' = [sm EXCEPT !.elapsed_us = 0,
                                      !.user_elapsed_us = 0]]_vars

\* the entry was aborted by USB: returned ESP_OK with the inactive time
\* still at the sleep timeout
C21_Witness ==
  /\ task.pc = "delay"
  /\ task.sleep_ret = "ESP_OK"
  /\ steps = <<>>
  /\ UsbInhibitorActive
  /\ sleep_manager_get_inactive_time(sm) >= SLEEP_TIMEOUT_MS

\* C22: with the USB dim inhibitor built in and VBUS present (the status
\* register answering with the bit set), no step turns the backlight off,
\* whether or not the USB sleep inhibitor is built in.
C22_DimInhibitOwnFlag ==
  [][(sdkconfig.PREVENT_SCREEN_OFF_ON_USB /\ hw.vbus_present /\ hw.i2c_ok)
       => ~(disp.backlight = "on" /\ disp'.backlight = "off")]_vars

\* C23: whatever the GUI task and the button task do in between, the
\* light-sleep primitive is called only with the inactive time at or beyond
\* the sleep timeout.
C23_NoEarlySleep ==
  [][(task.pc = "light_sleep_start" /\ task' # task)
       => (sleep_manager_get_inactive_time(sm) >= SLEEP_TIMEOUT_MS)]_vars


\* the places of the poll task between a successful display-lock acquisition
\* and the bsp_display_unlock() that follows it
HoldingPcs == {"sleep_pause", "sleep_unlock", "wake_resume", "wake_unlock"}

\* the poll task switches the backlight off in its dim step
DimStep ==
  /\ task.pc = "backlight_off"
  /\ disp.backlight = "on"
  /\ disp'.backlight = "off"

\* the poll task pauses or resumes LVGL timers, or switches the redraw
\* tracking
TreeStep ==
  /\ task.pc \in {"sleep_pause", "wake_resume", "deep_mark"}
  /\ task' # task
  /\ \/ disp'.paused # disp.paused
     \/ disp'.invalidation # disp.invalidation
     \/ disp'.ready # disp.ready

\* C24 as stated: the dim, the pausing of the timers at sleep entry and
\* their resumption at wake exit all happen while the coordinator holds the
\* display lock, and the coordinator holds the lock nowhere outside the
\* bracket, so every lock it acquires is released on every path.
C24_EveryMutationLocked ==
  [][/\ (DimStep \/ TreeStep) => (disp.lock = "sleep" /\ disp'.lock = "sleep")
     /\ (disp'.lock = "sleep") => (task'.pc \in HoldingPcs)]_vars

\* C24, amended: the pausing of the timers at sleep entry and their
\* resumption at wake exit (with the redraw-tracking switch) happen while the
\* coordinator holds the display lock, and the coordinator holds the lock
\* only between an acquisition and the unlock that follows it, so the lock is
\* released on every path, the error paths included; the dim (backlight off)
\* takes and needs no display lock: it leaves the lock as it finds it, free
\* or held by the GUI task.
C24_TreeMutationsLocked ==
  [][/\ TreeStep => (disp.lock = "sleep" /\ disp'.lock = "sleep")
     /\ (disp'.lock = "sleep") => (task'.pc \in HoldingPcs)
     /\ DimStep => (disp.lock # "sleep" /\ disp'.lock = disp.lock)]_vars

\* a light-sleep cycle paused and resumed the timers and returned with the
\* display lock released, the backlight having been dimmed before
C24_Witness ==
  /\ WakeCompleted
  /\ "pause_timers" \in StepSet
  /\ "resume_timers" \in StepSet
  /\ disp.lock = "none"
  /\ sm.saved_timer_count = 0
  /\ disp.timer_count > 0
  /\ cycle = "woken"


\* both timestamps of the activity clock are "now"
ClockReset(s) == s.elapsed_us = 0 /\ s.user_elapsed_us = 0

\* the backlight goes from off to on
BacklightOnTransition == disp.backlight = "off" /\ disp'.backlight = "on"

\* C25 as stated: every touch press event, every button press and every
\* backlight-on transition resets both timestamps of the activity clock, in
\* whatever power state it arrives, touch events while the state is marked
\* sleeping and the backlight-on of the wake sequence included.
C25_ResetInEveryState ==
  [][(GuiTouchEvent \/ ButtonTaskPress \/ BacklightOnTransition)
       => ClockReset(sm')]_vars

\* C25, amended: every touch press event that arrives while the state is not
\* marked sleeping, every button press and every backlight-on transition made
\* by sleep_manager_backlight_on resets both timestamps of the activity
\* clock.  A touch event delivered while the state is marked sleeping changes
\* nothing, and the backlight-on performed by the wake sequence
\* (display_wake) leaves both timestamps as they were.
C25_ResetWhileAwake ==
  [][/\ (GuiTouchEvent /\ ~sm.is_sleeping) => ClockReset(sm')
     /\ (GuiTouchEvent /\ sm.is_sleeping) => (sm' = sm /\ disp' = disp)
     /\ ButtonTaskPress => ClockReset(sm')
     /\ (BacklightOnTransition /\ task' = task) => ClockReset(sm')
     /\ (WakeEnter /\ sm.is_sleeping)
          => /\ sm'.elapsed_us = sm.elapsed_us
             /\ sm'.user_elapsed_us = sm.user_elapsed_us]_vars

\* display_wake has just switched the backlight on and both timestamps still
\* show the time that passed before
C25_Witness ==
  /\ task.pc = "wake_lock"
  /\ task.attempt = 0
  /\ LastSteps(1) = <<"display_wake">>
  /\ disp.backlight = "on"
  /\ ~sm.is_backlight_off
  /\ sm.is_sleeping
  /\ sm.elapsed_us > 0
  /\ sm.user_elapsed_us > 0


\* the timers a suspend_all over the registered timers remembers
Remembered(d) == 1..Min(d.timer_count, MAX_TIMERS)

\* resume_all applied to the state (s, d): [sm, disp]
ResumeAll(s, d) ==
  [sm |-> resume_lvgl_timers_sm(s), disp |-> resume_lvgl_timers_disp(s, d)]

\* the places of the poll task around its pause and its resume of the timers
ResumePcs == {"sleep_pause", "sleep_unlock", "wake_lock", "wake_resume"}

\* C26: resume_lvgl_timers resumes and forces ready exactly the timers the
\* preceding pause_lvgl_timers remembered, each once, and then empties the
\* remembered set; with nothing remembered it changes nothing, so a second
\* resume_all after a resume_all changes nothing more (checked on the states
\* before and after the pause and the resume); and pause_lvgl_timers
\* starts from an empty set, remembering the timers it pauses and nothing
\* else.
C26_ResumeAll ==
  [][/\ (task.pc = "wake_resume" /\ task' # task)
          => /\ saved_handles(sm) = Remembered(disp)
             /\ Cardinality(saved_handles(sm)) = sm.saved_timer_count
             /\ disp'.paused = disp.paused \ Remembered(disp)
             /\ disp'.ready = disp.ready \cup Remembered(disp)
             /\ sm'.saved_timer_count = 0
             /\ sm'.saved_timers = NoSavedTimers
     /\ (task.pc \in ResumePcs /\ task' # task /\ sm'.saved_timer_count = 0)
          => ResumeAll(sm', disp') = [sm |-> sm', disp |-> disp']
     /\ (task.pc \in ResumePcs /\ task' # task)
          => LET once == ResumeAll(sm', disp') IN
               ResumeAll(once.sm, once.disp) = once
     /\ (task.pc = "sleep_pause" /\ task' # task)
          => /\ saved_handles(sm') = Remembered(disp)
             /\ sm'.saved_timer_count = Cardinality(Remembered(disp))
             /\ \A i \in sm'.saved_timer_count..(MAX_TIMERS - 1) :
                  sm'.saved_timers[i] = NULL
             /\ disp'.paused = disp.paused \cup Remembered(disp)]_vars

\* resume_lvgl_timers has run over a full saved_timers array with more
\* timers registered than it holds: the remembered timers are ready and not
\* paused, and nothing is remembered
C26_Witness ==
  /\ task.pc = "wake_unlock"
  /\ disp.timer_count > MAX_TIMERS
  /\ disp.ready = 1..MAX_TIMERS
  /\ disp.paused = {}
  /\ sm.saved_timer_count = 0
  /\ sm.saved_timers = NoSavedTimers


\* the percent block ended on the read r of a raw voltage within the hard
\* sanity bounds, and the percent cell holds the value computed from it
PercentOfBoundedReading(r) ==
  /\ r.ret = "ESP_OK"
  /\ r.mv >= VBAT_ABSOLUTE_MIN_MV /\ r.mv <= VBAT_ABSOLUTE_MAX_MV
  /\ safe.percent = r.percent

\* C27: the percent written by axp2101_get_battery_data_safe is either the
\* default 50 or the curve value of a raw voltage within [2500,4500] mV; a
\* percent is never computed from an out-of-bounds raw reading (5000 mV),
\* and a call that obtained nothing but such a reading does not report
\* success.
C27_NoGarbagePercent ==
  (safe.pc = "done" /\ pmu_dev /\ "percent" \in safe.written) =>
     LET last == safe.p_reads[Len(safe.p_reads)] IN
       /\ safe.percent = PERCENT_DEFAULT \/ PercentOfBoundedReading(last)
       /\ (safe.req = {"percent"} /\ safe.ret = "ESP_OK")
            => PercentOfBoundedReading(last)


\* every bus read of the call failed
EveryReadFailed ==
  /\ \A i \in 1..Len(safe.v_reads) : ReadFailed(safe.v_reads[i])
  /\ \A i \in 1..Len(safe.p_reads) : ReadFailed(safe.p_reads[i])
  /\ \A i \in 1..Len(safe.c_reads) : ReadFailed(safe.c_reads[i])

\* the telemetry poll of the watchface has returned: all three fields were
\* requested of an initialised PMU
PollReturned == safe.pc = "done" /\ pmu_dev /\ safe.req = Fields

\* the reading of the three defaults
DefaultReading(data) ==
  /\ data.voltage_mv = VBAT_NOMINAL_MV
  /\ data.battery_percent = PERCENT_DEFAULT
  /\ data.is_charging = FALSE

\* the label shows a battery readout, not the fallback text
ShowsReadout(label) == label.text # "? --%"

\* C28 as stated: when every bus read of a telemetry poll fails, no error
\* reaches the caller: the watchface data task obtains the default reading
\* (3700 mV, 50 %, not charging) as a usable reading and the UI shows it, not
\* a fault indication.
C28_FaultNeverSurfaced ==
  (PollReturned /\ EveryReadFailed) =>
     LET data == watchface_data_task(safe) IN
       /\ safe.ret = "ESP_OK"
       /\ DefaultReading(data)
       /\ data.battery_valid
       /\ ShowsReadout(battery_label(TRUE, data))

\* C28, amended: a bus fault that leaves at least one field of the poll
\* readable is not surfaced: the call returns ESP_OK, the failed fields hold
\* their defaults, and the UI shows a readout with a voltage in [2500,4500]
\* and a percent in 0..100.  When every bus read of the poll fails, the call
\* writes the default reading (3700 mV, 50 %, not charging) and returns
\* ESP_FAIL; the watchface data task marks the reading invalid and the UI
\* shows its fallback text "? --%" in place of the default reading.
C28_FaultSurfacedWhenAllFail ==
  PollReturned =>
     LET data == watchface_data_task(safe)
         label == battery_label(TRUE, data)
     IN /\ EveryReadFailed
             => /\ safe.ret = "ESP_FAIL"
                /\ DefaultReading(data)
                /\ ~data.battery_valid
                /\ ~ShowsReadout(label)
        /\ ~EveryReadFailed
             => /\ (safe.ret = "ESP_OK") <=> (\E f \in Fields : Obtained(f))
                /\ \A f \in Fields : ~Obtained(f) => HoldsDefault(f)
        /\ (safe.ret = "ESP_OK")
             => /\ data.battery_valid
                /\ ShowsReadout(label)
                /\ label.voltage_mv >= VBAT_ABSOLUTE_MIN_MV
                /\ label.voltage_mv <= VBAT_ABSOLUTE_MAX_MV
                /\ label.percent \in 0..100

\* a poll whose nine bus reads all failed has returned ESP_FAIL with the
\* defaults written, and the label shows the fallback text
C28_Witness ==
  /\ PollReturned
  /\ EveryReadFailed
  /\ Len(safe.v_reads) = I2C_RETRY_COUNT
  /\ Len(safe.p_reads) = I2C_RETRY_COUNT
  /\ Len(safe.c_reads) = I2C_RETRY_COUNT
  /\ safe.ret = "ESP_FAIL"
  /\ DefaultReading(watchface_data_task(safe))
  /\ battery_label(TRUE, watchface_data_task(safe)).text = "? --%"


\* no task is inside a backlight operation: the poll task is not between
\* bsp_display_backlight_off() and the assignment of the flag, and the
\* button task is not inside sleep_manager_backlight_on()
NoBacklightOperation ==
  /\ task.pc # "backlight_off_flag"
  /\ button_pc = "idle"

\* C29: under every interleaving of the poll task, the touch handler and the
\* button task, whenever no backlight operation is in progress the flag
\* is_backlight_off equals the state of the backlight: it is set if and only
\* if the last backlight command issued was backlight-off.
C29_FlagMatchesBacklight ==
  NoBacklightOperation => (sm.is_backlight_off <=> (disp.backlight = "off"))


\* C30: with WiFi suspend configured, a light-sleep/wake cycle leaves the
\* state-change callback of the WiFi manager as it was: the callback
\* registered at boot is still registered once wifi_manager_deinit at sleep
\* entry has been followed by a successful wifi_manager_init at wake.
C30_CallbackKept ==
  (sdkconfig.WIFI_SUSPEND /\ LastSteps(1) = <<"resume_wifi">>
     /\ "suspend_wifi" \in StepSet /\ wifi_mgr.initialized)
    => wifi_mgr.callback

=============================================================================
